---- MODULE Spec2Model ----
(***************************************************************************)
(* A model of the scraping engine of justmadeid/social-services:           *)
(* app/scraper/twitter_scraper.py (TwitterScraper) and                     *)
(* app/scraper/cache_manager.py (CacheManager), with the settings of       *)
(* app/core/config.py and the credential query of app/crud/crud_settings.  *)
(*                                                                         *)
(* A worker runs one scraper call at a time, statement group by statement  *)
(* group (pc).  The Redis store, the state.json file and the credential    *)
(* table are shared.  The browser, the platform and the store's transport  *)
(* are the environment: what they answer is chosen with \E.                *)
(***************************************************************************)
EXTENDS Integers, Sequences, FiniteSets, TLC

VARIABLES
    now,          \* time.time(), in seconds
    state_file,   \* the file at self.state_file (state.json)
    store,        \* the Redis keyspace: cache key -> entry
    written,      \* history: the Python value of the last successful set per key
    db,           \* the twitter_credentials table, in query order
    ncalls,       \* calls started so far (bounded by MaxCalls)
    pc,           \* per worker: the statement group it is at
    call,         \* per worker: the running call (operation, arguments)
    self,         \* per worker: the TwitterScraper instance (username, password)
    loc,          \* per worker: the local variables of the running call
    pw,           \* per worker: the Playwright driver, browser and context
    outcome,      \* per worker: what the last call returned or raised
    hist,         \* per worker: history of the running call (what it did)
    status,       \* per worker: the last check_login_status() report
    keyin,        \* inputs of _generate_cache_key under SpecKey
    keyout        \* results of _generate_cache_key under SpecKey

vars == <<now, state_file, store, written, db, ncalls, pc, call, self, loc, pw,
          outcome, hist, status, keyin, keyout>>

(***************************************************************************)
(* Bounds of the model.                                                    *)
(***************************************************************************)
MaxCalls == 2        \* calls started in one behaviour
MaxTicks == 1        \* clock ticks in one behaviour
MaxHeight == 2       \* document.body.scrollHeight ranges over 1..MaxHeight
MaxParams == 2       \* items of a parameter mapping handed to _generate_cache_key
MaxCookies == 2      \* cookies of a state file handed to check_login_status
MaxEntries == 3      \* entries of an intercepted response about ProbeSubject
ExtraTweetCount == 25 \* tweet_count ranges up to max_tweet_count + this

(***************************************************************************)
(* Settings (app/core/config.py).                                          *)
(***************************************************************************)
cache_ttl_user_data == 3600
cache_ttl_timeline_data == 21600
min_tweet_count == 20
max_tweet_count == 100
TweetsPerScroll == 20

Workers == {1, 2}

(***************************************************************************)
(* JSON text, as the tree it denotes.  Every node has the same fields so   *)
(* that any two nodes compare: the kind k, the text s of a string or the   *)
(* key of a member, the value n of an integer (n/d of a float), and the    *)
(* items of an array, the members of an object or the value of a member.   *)
(***************************************************************************)
JStr(s) == [k |-> "string", s |-> s, n |-> 0, d |-> 1, items |-> <<>>]
JNum(n) == [k |-> "number", s |-> "", n |-> n, d |-> 1, items |-> <<>>]
JBool(b) == [k |-> IF b THEN "true" ELSE "false", s |-> "", n |-> 0, d |-> 1, items |-> <<>>]
JArr(items) == [k |-> "array", s |-> "", n |-> 0, d |-> 1, items |-> items]
JMem(key, val) == [k |-> "member", s |-> key, n |-> 0, d |-> 1, items |-> <<val>>]
JObj(members) == [k |-> "object", s |-> "", n |-> 0, d |-> 1, items |-> members]
\* A float, kept exactly as the fraction num/den.
Frac(num, den) == [num |-> num, den |-> den]
JFloat(f) == [k |-> "float", s |-> "", n |-> f.num, d |-> f.den, items |-> <<>>]
\* A text that is not JSON.
JGarbage == [k |-> "garbage", s |-> "", n |-> 0, d |-> 1, items |-> <<>>]

(***************************************************************************)
(* Python scalars of a parameter mapping, tagged with their type; a        *)
(* parameter mapping (a dict) is the sequence of its items in insertion    *)
(* order, with distinct keys.                                              *)
(***************************************************************************)
PyStr(s) == [t |-> "str", s |-> s, n |-> 0]
PyInt(n) == [t |-> "int", s |-> "", n |-> n]
Item(key, val) == [key |-> key, val |-> val]

\* The parameter names the four operations use, in string order.
KeyOrder == <<"limit", "query", "tweet_count", "username">>

DumpsScalar(v) == IF v.t = "str" THEN JStr(v.s) ELSE JNum(v.n)

\* The items of dict d ordered by key (json.dumps(..., sort_keys=True)).
SortKeys(d) ==
    LET F[i \in 0..Len(KeyOrder)] ==
            IF i = 0 THEN <<>>
            ELSE F[i - 1] \o SelectSeq(d, LAMBDA e : e.key = KeyOrder[i])
    IN  F[Len(KeyOrder)]

\* json.dumps(params, sort_keys=True)
json_dumps_sort_keys(params) ==
    LET d == SortKeys(params)
    IN  JObj([i \in 1..Len(d) |-> JMem(d[i].key, DumpsScalar(d[i].val))])

\* json.dumps(params): the items in insertion order.
json_dumps_insertion_order(params) ==
    JObj([i \in 1..Len(params) |-> JMem(params[i].key, DumpsScalar(params[i].val))])

\* hashlib.md5(text.encode()).hexdigest(): a digest that stands for its text
\* and for nothing else (collisions of MD5 are not modelled).
md5_hexdigest(text) == [md5 |-> text]

\* The digest is taken of the parameters as they were inserted.
generate_cache_key_unsorted(operation, params) ==
    [prefix |-> "cache", operation |-> operation,
     digest |-> md5_hexdigest(json_dumps_insertion_order(params))]

\* TwitterScraper._generate_cache_key
generate_cache_key(operation, params) ==
    [prefix |-> "cache", operation |-> operation,
     digest |-> md5_hexdigest(json_dumps_sort_keys(params))]

(***************************************************************************)
(* Result values.  A result is a Python dict, here a record; json.dumps    *)
(* turns each Python type into its JSON kind (str -> string, int and float *)
(* -> number, bool -> true/false, list -> array, dict -> object) and       *)
(* json.loads turns each JSON kind back into a Python type.                *)
(***************************************************************************)
DumpsStrList(l) == JArr([i \in 1..Len(l) |-> JStr(l[i])])

\* A user record of search_user (lines 361-376) or of following_user and
\* followers_user (lines 459-472); of each record the identifier, one string,
\* one counter and one flag are kept.
DumpsUser(u) ==
    IF "user_id" \in DOMAIN u
    THEN JObj(<<JMem("user_id", JStr(u.user_id)), JMem("name", JStr(u.name)),
                JMem("followers", JNum(u.followers)),
                JMem("verified", JBool(u.verified))>>)
    ELSE JObj(<<JMem("id", JStr(u.id)), JMem("name", JStr(u.name)),
                JMem("followers", JNum(u.followers)),
                JMem("blue_verified", JBool(u.blue_verified))>>)

\* A tweet record (lines 717-735).
DumpsTweet(t) ==
    JObj(<<JMem("id", JStr(t.id)), JMem("tweets", JStr(t.tweets)),
           JMem("likes", JNum(t.likes)), JMem("views", JNum(t.views)),
           JMem("retweet", JNum(t.retweet)), JMem("replies", JNum(t.replies)),
           JMem("quote", JNum(t.quote)),
           JMem("engagement", JFloat(t.engagement)),
           JMem("hashtags", DumpsStrList(t.hashtags)),
           JMem("mentions", DumpsStrList(t.mentions))>>)

\* A hashtag or mention statistic (lines 754-761).
DumpsStat(s) ==
    IF "hashtags" \in DOMAIN s
    THEN JObj(<<JMem("hashtags", JStr(s.hashtags)), JMem("count", JNum(s.count)),
                JMem("percentage", JFloat(s.percentage))>>)
    ELSE JObj(<<JMem("user_mention", JStr(s.user_mention)), JMem("count", JNum(s.count)),
                JMem("percentage", JFloat(s.percentage))>>)

\* The metadata dict of a result (lines 388-393, 484-489, 768-774).
DumpsMetadata(m) ==
    JObj((IF "query" \in DOMAIN m
          THEN <<JMem("query", JStr(m.query)), JMem("result_count", JNum(m.result_count))>>
          ELSE IF "result_count" \in DOMAIN m
          THEN <<JMem("username", JStr(m.username)),
                 JMem("result_count", JNum(m.result_count))>>
          ELSE <<JMem("username", JStr(m.username)),
                 JMem("total_tweets", JNum(m.total_tweets)),
                 \* datetime.now().isoformat(): the text of an instant,
                 \* kept as the instant
                 JMem("analysis_period", JNum(m.analysis_period))>>)
         \o <<JMem("execution_time", JFloat(m.execution_time)),
              JMem("cached", JBool(m.cached))>>)

\* json.dumps(value, default=str) of a result dict.
json_dumps(value) ==
    IF "users" \in DOMAIN value
    THEN JObj(<<JMem("users", JArr([i \in 1..Len(value.users) |-> DumpsUser(value.users[i])])),
                JMem("metadata", DumpsMetadata(value.metadata))>>)
    ELSE JObj(<<JMem("timelines",
                     JArr([i \in 1..Len(value.timelines) |-> DumpsTweet(value.timelines[i])])),
                JMem("hashtags",
                     JArr([i \in 1..Len(value.hashtags) |-> DumpsStat(value.hashtags[i])])),
                JMem("mentions",
                     JArr([i \in 1..Len(value.mentions) |-> DumpsStat(value.mentions[i])])),
                JMem("metadata", DumpsMetadata(value.metadata))>>)

\* The member of object j that json.loads keeps for a key: the last one.
LastMember(j, key) ==
    j.items[CHOOSE i \in DOMAIN j.items :
                /\ j.items[i].s = key
                /\ \A i2 \in DOMAIN j.items : i2 > i => j.items[i2].s # key]

RECURSIVE json_loads(_)
\* json.loads(text), for a text that parses.
json_loads(j) ==
    CASE j.k = "object" ->
            [key \in {j.items[i].s : i \in DOMAIN j.items} |->
                json_loads(LastMember(j, key).items[1])]
      [] j.k = "array" -> [i \in DOMAIN j.items |-> json_loads(j.items[i])]
      [] j.k = "string" -> j.s
      [] j.k = "number" -> j.n
      [] j.k = "float" -> Frac(j.n, j.d)
      [] j.k = "true" -> TRUE
      [] j.k = "false" -> FALSE

(***************************************************************************)
(* CacheManager (app/scraper/cache_manager.py) over the Redis keyspace.    *)
(* An Optional value is <<>> (None) or <<v>>.                              *)
(***************************************************************************)
None == <<>>
Some(v) == <<v>>

Absent == [present |-> FALSE, doc |-> JGarbage, exp |-> 0]

\* redis_client.get(key): the text stored under a key that has not expired.
redis_get(st, key, t) ==
    IF st[key].present /\ t < st[key].exp THEN Some(st[key].doc) ELSE None

\* redis_client.setex(key, ttl, text)
redis_setex(st, key, ttl, text, t) ==
    [st EXCEPT ![key] = [present |-> TRUE, doc |-> text, exp |-> t + ttl]]

\* The decoded result is returned as it was stored.
NoMarkCached(result) == result

\* result['metadata']['cached'] = True
MarkCached(result) ==
    [result EXCEPT !.metadata =
        [f \in DOMAIN @ \cup {"cached"} |-> IF f = "cached" THEN TRUE ELSE @[f]]]

\* CacheManager.get, lines 23-29: the value returned for the text the store
\* answered with (None when the store holds nothing under the key).
get_decode(cached_data) ==
    IF cached_data = None THEN None
    ELSE IF cached_data[1].k = "garbage" THEN None      \* json.JSONDecodeError
    ELSE LET result == json_loads(cached_data[1])
         IN  IF cached_data[1].k = "object" /\ "metadata" \in DOMAIN result
             THEN Some(MarkCached(result))
             ELSE Some(result)

\* The store answers whatever the transport does.
CacheManager_get_unguarded(st, key, t, redis_ok) == get_decode(redis_get(st, key, t))

\* CacheManager.get(key); redis_ok = FALSE is a redis.RedisError.
CacheManager_get(st, key, t, redis_ok) ==
    IF redis_ok THEN get_decode(redis_get(st, key, t)) ELSE None

(***************************************************************************)
(* The session state file (state.json) and the checks made of it.          *)
(* A cookie has a name (possibly none), and possibly an 'expires' field in *)
(* epoch seconds.  A file is absent, unparsable, or a JSON object that may *)
(* hold a 'cookies' list.                                                  *)
(***************************************************************************)
Cookie(name, has_expires, expires) ==
    [name |-> name, has_expires |-> has_expires, expires |-> expires]

FileAbsent == [kind |-> "absent", has_cookies |-> FALSE, cookies |-> <<>>]
FileCorrupt == [kind |-> "corrupt", has_cookies |-> FALSE, cookies |-> <<>>]
FileNoCookiesKey == [kind |-> "json", has_cookies |-> FALSE, cookies |-> <<>>]
FileWith(cookies) == [kind |-> "json", has_cookies |-> TRUE, cookies |-> cookies]

\* The names check_login_status takes for authentication cookies (line 828).
AuthCookieNames == {"auth_token", "ct0", "twid"}

\* A cookie counts whatever its expiry.
NotExpiredUnchecked(cookie, current_time) == TRUE

\* check_login_status, lines 806-813: the cookies that are not expired.
NotExpired(cookie, current_time) ==
    IF cookie.has_expires
    THEN cookie.expires = -1 \/ cookie.expires > current_time
    ELSE TRUE

valid_cookies(cookies, current_time) ==
    SelectSeq(cookies, LAMBDA c : NotExpired(c, current_time))

\* check_login_status, lines 827-828
twitter_auth_cookies(valid) == SelectSeq(valid, LAMBDA c : c.name \in AuthCookieNames)

\* A TwitterScraper instance has credentials when both are non-empty.
HasCredentials(scraper) == scraper.username # "" /\ scraper.password # ""

\* TwitterScraper.check_login_status, lines 782-845 (the path and the size of
\* the file are left out of the report).
check_login_status(file, scraper, current_time) ==
    LET base == [state_file_exists |-> file.kind # "absent",
                 cookies_count |-> 0, valid_cookies_count |-> 0,
                 has_credentials |-> HasCredentials(scraper),
                 login_required |-> FALSE, session_valid |-> FALSE, error |-> ""]
        cookies == file.cookies      \* state_data.get('cookies', [])
        valid == valid_cookies(cookies, current_time)
        counted == [base EXCEPT !.cookies_count = Len(cookies),
                                !.valid_cookies_count = Len(valid)]
    IN  IF file.kind = "absent"
        THEN [base EXCEPT !.login_required = TRUE]
        ELSE IF file.kind = "corrupt"
        THEN [base EXCEPT !.login_required = TRUE, !.error = "JSONDecodeError"]
        ELSE IF Len(cookies) = 0
        THEN [counted EXCEPT !.login_required = TRUE]
        ELSE IF Len(valid) = 0
        THEN [counted EXCEPT !.login_required = TRUE,
                             !.error = "All cookies are expired"]
        ELSE IF Len(twitter_auth_cookies(valid)) > 0
        THEN [counted EXCEPT !.session_valid = TRUE]
        ELSE [counted EXCEPT !.login_required = TRUE,
                             !.error = "No Twitter authentication cookies found"]

(***************************************************************************)
(* The credential table and the fallback of ensure_login.                  *)
(***************************************************************************)
Row(username, password, is_active) ==
    [username |-> username,
     encrypted_password |-> [plain |-> password, salt |-> "salt"],
     salt |-> "salt", is_active |-> is_active]

\* Every row, active or not.
get_all_credentials(table) == table

\* CRUDCredentials.get_active_credentials: the rows with is_active, in table order.
get_active_credentials(table) == SelectSeq(table, LAMBDA r : r.is_active)

\* SecurityManager.decrypt_password: the plain text of what was encrypted with
\* this salt.
decrypt_password(encrypted_password, salt) == encrypted_password.plain

NoCreds == [username |-> "", password |-> ""]

\* The first row of the table, active or not.
get_first_row_credentials(table) ==
    IF Len(table) > 0
    THEN [username |-> table[1].username,
          password |-> decrypt_password(table[1].encrypted_password, table[1].salt)]
    ELSE NoCreds

\* get_fallback_credentials (lines 78-89): the first active credential or
\* (None, None).
get_fallback_credentials(table) ==
    LET active_credentials == get_active_credentials(table)
    IN  IF Len(active_credentials) > 0
        THEN [username |-> active_credentials[1].username,
              password |-> decrypt_password(active_credentials[1].encrypted_password,
                                            active_credentials[1].salt)]
        ELSE NoCreds

\* The messages of the ScrapingException ensure_login raises when it has no
\* credentials to log in with.
NoCredentialsErrors ==
    {"No login state found and no credentials provided",
     "State file corrupted and no credentials provided"}

\* What ensure_login (lines 65-238) finds in the state file:
\* "missing" (line 67), "unreadable" (line 184), "no_cookies" (line 127) or
\* "found" (line 183: the existing session is used).
ensure_login_branch(file) ==
    IF file.kind = "absent" THEN "missing"
    ELSE IF file.kind = "corrupt" THEN "unreadable"
    ELSE IF Len(file.cookies) = 0 THEN "no_cookies"     \* not state_data.get('cookies')
    ELSE "found"

(***************************************************************************)
(* Intercepted responses and their extraction.                             *)
(* A response has the name of the GraphQL call in its URL and a body.  A   *)
(* body is "ok" (the envelope is there, with its entries), "not_json"      *)
(* (json.JSONDecodeError), "missing_key" (KeyError on the envelope path),  *)
(* "short" (fewer than two instructions: IndexError) or "null" (a None on  *)
(* the envelope path: TypeError).  An entry has a shape:                   *)
(*   "user" / "tweet"  well formed                                         *)
(*   "cursor"          a pagination cursor (no itemContent; no "tweet" in  *)
(*                     its entryId)                                        *)
(*   "no_id"           the primary identifier is missing (KeyError)        *)
(*   "null_result"     user_results.result / tweet_results.result is None  *)
(*   "no_subdicts"     only the identifier is there: 'core', 'legacy'      *)
(*                     (users), 'views' and the counters (tweets) missing  *)
(*   "null_core"       'core' is there and is None (users)                 *)
(*   "no_full_text"    legacy has no 'full_text' (tweets)                  *)
(***************************************************************************)
Response(name, shape, entries) == [name |-> name, shape |-> shape, entries |-> entries]

Entry(shape, id, name, followers, flag, hashtags, mentions, views, likes) ==
    [shape |-> shape, id |-> id, name |-> name, followers |-> followers,
     flag |-> flag, hashtags |-> hashtags, mentions |-> mentions,
     views |-> views, likes |-> likes, retweet |-> 0, reply |-> 0, quote |-> 0]

UserEntry(id, name, followers, flag) ==
    Entry("user", id, name, followers, flag, <<>>, <<>>, 0, 0)
TweetEntry(id, text, followers, hashtags, mentions, views, likes) ==
    Entry("tweet", id, text, followers, FALSE, hashtags, mentions, views, likes)
CursorEntry(id) == Entry("cursor", id, "", 0, FALSE, <<>>, <<>>, 0, 0)
BadEntry(shape, id) == Entry(shape, id, "", 1, FALSE, <<>>, <<>>, 0, 0)

Min(a, b) == IF a < b THEN a ELSE b

\* The URL pattern each operation searches the intercepted calls for.
InterceptPattern(operation) ==
    CASE operation = "search_user" -> "SearchTimeline"
      [] operation = "following_user" -> "Following"
      [] operation = "followers_user" -> "Followers"
      [] operation = "timeline_tweet" -> "UserTweets"

\* The loop has no break: the last intercepted call whose URL matches.
last_matching(xhr_calls, pattern) ==
    LET m == SelectSeq(xhr_calls, LAMBDA f : f.name = pattern)
    IN  IF Len(m) > 0 THEN <<m[Len(m)]>> ELSE <<>>

\* Lines 341-345: the first intercepted call whose URL matches, as a list.
first_matching(xhr_calls, pattern) ==
    LET m == SelectSeq(xhr_calls, LAMBDA f : f.name = pattern)
    IN  IF Len(m) > 0 THEN <<m[1]>> ELSE <<>>

\* The entries are mapped untruncated.
keep_cursor_entries(x) == x

\* Lines 355, 454, 550, 663: x[:-2] if len(x) > 2 else x
remove_cursor_entries(x) == IF Len(x) > 2 THEN SubSeq(x, 1, Len(x) - 2) ELSE x

\* x[:limit], for limit >= 0
Take(x, limit) == SubSeq(x, 1, Min(limit, Len(x)))

\* Lines 359-378 and 457-474: what one entry of a user list yields:
\* a record ("ok"), nothing ("skip": KeyError or TypeError, caught), or an
\* exception that leaves the loop ("raise": AttributeError of None.get).
user_of(operation, e) ==
    LET rec == IF operation = "search_user"
               THEN [user_id |-> e.id, name |-> e.name, followers |-> e.followers,
                     verified |-> e.flag]
               ELSE [id |-> e.id, name |-> e.name, followers |-> e.followers,
                     blue_verified |-> e.flag]
    IN  CASE e.shape \in {"user", "no_subdicts"} -> [status |-> "ok", rec |-> <<rec>>]
          [] e.shape = "null_core" -> [status |-> "raise", rec |-> <<>>]
          [] OTHER -> [status |-> "skip", rec |-> <<>>]

RECURSIVE map_users(_, _)
\* The records of the entries that yield one, in order.
map_users(operation, entries) ==
    IF entries = <<>> THEN <<>>
    ELSE user_of(operation, Head(entries)).rec \o map_users(operation, Tail(entries))

\* Lines 347-380 (442-476, 538-572): the users of the matching calls, or the
\* exception that leaves the try block of the operation.
extract_users(operation, calls, limit) ==
    IF calls = <<>> THEN [exc |-> "", users |-> <<>>]
    ELSE LET xhr == calls[1]
             result == Take(remove_cursor_entries(xhr.entries), limit)
         IN  CASE xhr.shape \in {"not_json", "missing_key"} ->
                      [exc |-> "", users |-> <<>>]
               [] xhr.shape = "short" ->        \* instructions[1], search only
                      IF operation = "search_user"
                      THEN [exc |-> "IndexError", users |-> <<>>]
                      ELSE [exc |-> "", users |-> <<>>]
               [] xhr.shape = "null" -> [exc |-> "TypeError", users |-> <<>>]
               [] OTHER ->
                      LET raising == {i \in DOMAIN result :
                                         user_of(operation, result[i]).status = "raise"}
                      IN  IF raising # {}
                          THEN LET first == CHOOSE i \in raising :
                                                \A j \in raising : i <= j
                               IN  [exc |-> "AttributeError",
                                    users |-> map_users(operation,
                                                        SubSeq(result, 1, first - 1))]
                          ELSE [exc |-> "", users |-> map_users(operation, result)]

(***************************************************************************)
(* Timeline extraction (timeline_tweet, lines 647-739).  hashtags_data and *)
(* mentions_data are dicts token -> count, kept as the sequence of their   *)
(* items in insertion order.                                               *)
(***************************************************************************)
HasToken(data, token) == \E i \in DOMAIN data : data[i].token = token

\* data.setdefault(token, {"count": 0, ...}); data[token]["count"] += 1
Bump(data, token) ==
    IF HasToken(data, token)
    THEN [i \in DOMAIN data |->
            IF data[i].token = token
            THEN [data[i] EXCEPT !.count = @ + 1] ELSE data[i]]
    ELSE Append(data, [token |-> token, count |-> 1])

RECURSIVE BumpAll(_, _)
BumpAll(data, tokens) ==
    IF tokens = <<>> THEN data ELSE BumpAll(Bump(data, Head(tokens)), Tail(tokens))

\* Lines 696-703: ((views + like + retweet + reply + quote) / follower) * 100
engagement_of(views, like, retweet, reply, quote, follower) ==
    Frac((views + like + retweet + reply + quote) * 100, follower)

\* Lines 666-737: one entry of a UserTweets response.  acc holds timeline,
\* hashtags_data, mentions_data and the exception that left the loop, if any.
process_entry(acc, e) ==
    LET follower == IF e.shape = "no_subdicts" THEN 1 ELSE e.followers
        counted == [acc EXCEPT !.hashtags_data = BumpAll(@, e.hashtags),
                               !.mentions_data = BumpAll(@, e.mentions)]
        tweet == [id |-> e.id, tweets |-> e.name, likes |-> e.likes, views |-> e.views,
                  retweet |-> e.retweet, replies |-> e.reply, quote |-> e.quote,
                  engagement |-> engagement_of(e.views, e.likes, e.retweet, e.reply,
                                               e.quote, follower),
                  hashtags |-> e.hashtags, mentions |-> e.mentions]
    IN  CASE e.shape \in {"cursor", "null_result", "no_full_text"} -> acc
          [] e.shape \in {"tweet", "no_subdicts", "no_id"} /\ follower = 0 ->
                 [counted EXCEPT !.exc = "ZeroDivisionError"]
          [] e.shape = "no_id" -> counted               \* KeyError at line 715
          [] e.shape \in {"tweet", "no_subdicts"} ->
                 [counted EXCEPT !.timeline = Append(@, tweet)]
          [] OTHER -> acc

RECURSIVE process_entries(_, _)
process_entries(acc, entries) ==
    IF entries = <<>> \/ acc.exc # "" THEN acc
    ELSE process_entries(process_entry(acc, Head(entries)), Tail(entries))

\* Lines 653-739: one intercepted UserTweets call.
process_call(acc, xhr) ==
    CASE xhr.shape \in {"not_json", "missing_key"} -> acc
      [] xhr.shape = "null" -> [acc EXCEPT !.exc = "TypeError"]
      [] OTHER -> process_entries(acc, remove_cursor_entries(xhr.entries))

RECURSIVE process_calls(_, _)
\* Lines 647-739: every UserTweets call intercepted so far, after one pass.
process_calls(acc, calls) ==
    IF calls = <<>> \/ acc.exc # "" THEN acc
    ELSE process_calls(process_call(acc, Head(calls)), Tail(calls))

user_tweets_calls(xhr_calls) == SelectSeq(xhr_calls, LAMBDA f : f.name = "UserTweets")

RECURSIVE SumCounts(_)
SumCounts(data) == IF data = <<>> THEN 0 ELSE Head(data).count + SumCounts(Tail(data))

\* The share of a token among the distinct tokens, not among the occurrences.
stats_of_tokens(data, field) ==
    LET pct(c) == IF Len(data) > 0 THEN Frac(c * 100, Len(data)) ELSE Frac(0, 1)
    IN  [i \in DOMAIN data |->
            IF field = "hashtags"
            THEN [hashtags |-> data[i].token, count |-> data[i].count,
                  percentage |-> pct(data[i].count)]
            ELSE [user_mention |-> data[i].token, count |-> data[i].count,
                  percentage |-> pct(data[i].count)]]

\* Lines 744-761: the statistics of one kind.
stats_of(data, field) ==
    LET total == SumCounts(data)
        pct(c) == IF total > 0 THEN Frac(c * 100, total) ELSE Frac(0, 1)
    IN  [i \in DOMAIN data |->
            IF field = "hashtags"
            THEN [hashtags |-> data[i].token, count |-> data[i].count,
                  percentage |-> pct(data[i].count)]
            ELSE [user_mention |-> data[i].token, count |-> data[i].count,
                  percentage |-> pct(data[i].count)]]

(***************************************************************************)
(* The scroll budget of timeline_tweet (line 630).                         *)
(***************************************************************************)
\* The smallest integer that is at least a / b.
ceil_div(a, b) == (a + b - 1) \div b

\* Every fraction is rounded up, a whole quotient too.
round_up(a, b) == ceil_div(a, b) + 1

\* int(round(tweet_count / 20, 0)): Python rounds a tie to the even integer.
round_half_even(a, b) ==
    LET q == a \div b
        r == a % b
    IN  IF 2 * r < b THEN q
        ELSE IF 2 * r > b THEN q + 1
        ELSE IF q % 2 = 0 THEN q ELSE q + 1

\* line 630: _max_scrolls
max_scrolls_of(tweet_count) ==
    IF min_tweet_count <= tweet_count /\ tweet_count <= max_tweet_count
    THEN round_half_even(tweet_count, TweetsPerScroll)
    ELSE 1

(***************************************************************************)
(* The calls of the model and what the environment can answer.             *)
(***************************************************************************)
Request(operation, subject, n) == [operation |-> operation, subject |-> subject, n |-> n]

ScrapeOperations == {"search_user", "following_user", "followers_user", "timeline_tweet"}

\* The requests made of the scraper: search_user(query, limit),
\* following_user(username, limit), followers_user(username, limit),
\* timeline_tweet(username, tweet_count), and login().
\* (Other limits and tweet counts are asked for under SpecCapture.)
Requests ==
    {Request("search_user", "alice", 1),
     Request("following_user", "bob", 1), Request("followers_user", "bob", 1),
     Request("timeline_tweet", "bob", 50),
     Request("login", "", 0)}

\* The dict each operation hands to _generate_cache_key (lines 311, 406, 502, 598).
params_of(r) ==
    CASE r.operation = "search_user" ->
            <<Item("query", PyStr(r.subject)), Item("limit", PyInt(r.n))>>
      [] r.operation = "timeline_tweet" ->
            <<Item("username", PyStr(r.subject)), Item("tweet_count", PyInt(r.n))>>
      [] OTHER ->
            <<Item("username", PyStr(r.subject)), Item("limit", PyInt(r.n))>>

cache_key_of(r) == generate_cache_key(r.operation, params_of(r))

CacheKeys == {cache_key_of(r) : r \in {q \in Requests : q.operation # "login"}}

\* The credentials a scraper is constructed with.
Supplied == [username |-> "u1", password |-> "p1"]

\* The state files a behaviour starts with.
AuthForever == Cookie("auth_token", TRUE, -1)
AuthExpired == Cookie("auth_token", TRUE, 0)
GuestCookie == Cookie("guest_id", FALSE, 0)
InitFiles ==
    {FileAbsent, FileCorrupt, FileWith(<<>>), FileWith(<<AuthExpired>>),
     FileWith(<<AuthForever>>)}

\* The cookies a browser context holds when login saves it.
LoginJars == {<<AuthForever>>, <<GuestCookie>>}

\* The credential tables a behaviour starts with.
InitTables ==
    {<<Row("u2", "p2", FALSE)>>, <<Row("u2", "p2", FALSE), Row("u3", "p3", TRUE)>>}

\* What the platform answers to a user-list capture: the intercepted XHR calls.
UserFeeds(operation) ==
    LET pat == InterceptPattern(operation)
    IN  {<<>>,
         <<Response(pat, "null", <<>>)>>,
         <<Response("other", "ok", <<>>),
           Response(pat, "ok", <<UserEntry("1", "ann", 5, TRUE), BadEntry("no_id", ""),
                                 UserEntry("2", "ben", 0, FALSE),
                                 CursorEntry("c1"), CursorEntry("c2")>>)>>}

\* What the platform answers to a timeline capture: the calls intercepted
\* while the page loads, then those intercepted during each scroll pass.
TimelineFeeds ==
    {<< <<>> >>,
     << <<Response("UserTweets", "ok",
                   <<TweetEntry("t1", "hi #a @x", 4, <<"a">>, <<"x">>, 10, 2),
                     CursorEntry("c1"), CursorEntry("c2")>>)>>,
        <<Response("UserTweets", "ok",
                   <<TweetEntry("t2", "#a #b", 4, <<"a", "b">>, <<>>, 0, 1),
                     CursorEntry("c3"), CursorEntry("c4")>>)>> >>}

Heights == 1..MaxHeight

\* page.evaluate raised instead of giving a height (lines 638-640).
EvaluateFailed == 0

\* The account whose pages answer with every kind of entry, in every order.
ProbeSubject == "carol"

\* The entries of a user list about ProbeSubject: two users, a cursor, and
\* the malformed shapes.
ProbeUserEntries ==
    {UserEntry("1", "ann", 5, TRUE), UserEntry("2", "ben", 0, FALSE), CursorEntry("c1"),
     BadEntry("no_id", ""), BadEntry("null_result", ""), BadEntry("no_subdicts", "3"),
     BadEntry("null_core", "4")}

\* The entries of a timeline of ProbeSubject: a tweet with every counter, a
\* tweet with three #a and seven #b, a tweet of an author without followers,
\* a cursor, and the malformed shapes (one without id_str, its text tagged).
ProbeTweetEntries ==
    {[TweetEntry("t1", "hi #a @x", 4, <<"a">>, <<"x">>, 10, 2)
         EXCEPT !.retweet = 1, !.reply = 2, !.quote = 3],
     TweetEntry("t2", "#a #a #a #b #b #b #b #b #b #b", 1,
                <<"a", "a", "a", "b", "b", "b", "b", "b", "b", "b">>, <<>>, 0, 0),
     TweetEntry("t3", "#b", 0, <<"b">>, <<>>, 1, 1),
     CursorEntry("c1"),
     [BadEntry("no_id", "") EXCEPT !.hashtags = <<"a">>],
     BadEntry("no_subdicts", "t4"),
     BadEntry("no_full_text", "t5")}

\* Every list of at most MaxEntries entries.
EntryLists(entries) == UNION {[1..n -> entries] : n \in 0..MaxEntries}

\* What the platform answers to a user-list capture about ProbeSubject: one
\* matching call with any entries, one with a body that is no envelope, an
\* unrelated call alone, or an unrelated call followed by two matching ones.
ProbeUserFeeds(operation) ==
    LET pat == InterceptPattern(operation)
    IN  {<<Response(pat, "ok", l)>> : l \in EntryLists(ProbeUserEntries)}
        \cup {<<Response(pat, shape, <<>>)>> :
                  shape \in {"not_json", "missing_key", "short", "null"}}
        \cup {<<Response("other", "ok", <<UserEntry("9", "zed", 1, FALSE)>>)>>,
               <<Response("other", "ok", <<UserEntry("9", "zed", 1, FALSE)>>),
                 Response(pat, "ok", <<UserEntry("1", "ann", 5, TRUE),
                                       UserEntry("2", "ben", 0, FALSE)>>),
                 Response(pat, "ok", <<UserEntry("2", "ben", 0, FALSE)>>)>>}

\* What it answers to a timeline capture of ProbeSubject: one UserTweets call
\* intercepted while the page loads, none later.
ProbeTimelineFeeds ==
    {<< <<Response("UserTweets", "ok", l)>> >> : l \in EntryLists(ProbeTweetEntries)}
    \cup {<< <<Response("UserTweets", shape, <<>>)>> >> :
              shape \in {"not_json", "missing_key", "null"}}

UserFeedsFor(r) ==
    IF r.subject = ProbeSubject THEN ProbeUserFeeds(r.operation) ELSE UserFeeds(r.operation)

TimelineFeedsFor(r) ==
    IF r.subject = ProbeSubject THEN ProbeTimelineFeeds ELSE TimelineFeeds

(***************************************************************************)
(* The state of a worker between calls, and the initial state.             *)
(***************************************************************************)
NoLocals ==
    [start_time |-> 0, exc |-> "", login_mode |-> "", xhr_calls |-> <<>>, feed |-> <<>>,
     users |-> <<>>, timeline |-> <<>>, hashtags_data |-> <<>>, mentions_data |-> <<>>,
     prev_height |-> -1, max_scrolls |-> 0, scroll_count |-> 0, result |-> None,
     marker |-> ""]

NoPlaywright == [driver |-> FALSE, browser |-> "none", context |-> "none"]

NoOutcome == [kind |-> "none", value |-> None, error |-> "", cause |-> ""]

NoHistory ==
    [ensure |-> 0, logins |-> 0, launches |-> 0, leaked |-> 0, writes |-> 0, sets |-> 0,
     answered |-> FALSE, expected |-> None, branch |-> "", valid |-> FALSE,
     capture |-> FALSE, passes |-> 0, stable |-> FALSE, supplied |-> FALSE,
     exc |-> "", partial |-> 0, setfail |-> FALSE, got |-> ""]

\* No status was asked for yet; a report is kept with the time it was made at.
NoStatus == [asked |-> FALSE, at |-> 0, report |-> check_login_status(FileAbsent, NoCreds, 0)]

NoRequest == Request("", "", 0)

NoKeyIn == [operation |-> "", p1 |-> <<>>, p2 |-> <<>>]
NoKeyOut == [done |-> FALSE, k1 |-> generate_cache_key("", <<>>),
             k2 |-> generate_cache_key("", <<>>)]

\* The workers, the store and the inputs of the other specifications at rest.
InitWorkers ==
    /\ now = 0
    /\ store = [key \in CacheKeys |-> Absent]
    /\ written = [key \in CacheKeys |-> None]
    /\ ncalls = 0
    /\ pc = [p \in Workers |-> "idle"]
    /\ call = [p \in Workers |-> NoRequest]
    /\ self = [p \in Workers |-> NoCreds]
    /\ loc = [p \in Workers |-> NoLocals]
    /\ pw = [p \in Workers |-> NoPlaywright]
    /\ outcome = [p \in Workers |-> NoOutcome]
    /\ hist = [p \in Workers |-> NoHistory]
    /\ status = [p \in Workers |-> NoStatus]

Init ==
    /\ InitWorkers
    /\ state_file \in InitFiles
    /\ db \in InitTables
    /\ keyin = NoKeyIn
    /\ keyout = NoKeyOut

(***************************************************************************)
(* Helpers of the actions.                                                 *)
(***************************************************************************)
\* Nothing counts as true.
NeverTruthy(opt) == FALSE

\* Python truth of an Optional dict: not None and not empty.
Truthy(opt) == opt # None /\ DOMAIN opt[1] # {}

Returned(value) == [kind |-> "return", value |-> value, error |-> "", cause |-> ""]

\* The exception is dropped and None returned.
Swallowed(error, cause) == [kind |-> "return", value |-> None, error |-> "", cause |-> ""]

Raised(error, cause) == [kind |-> "raise", value |-> None, error |-> error, cause |-> cause]

\* The message each operation wraps an exception of its try block in
\* (lines 401, 497, 593, 780).
FailureMessage(operation) ==
    CASE operation = "search_user" -> "User search failed"
      [] operation = "following_user" -> "Following list retrieval failed"
      [] operation = "followers_user" -> "Followers list retrieval failed"
      [] operation = "timeline_tweet" -> "Timeline retrieval failed"
      [] OTHER -> "Login failed"

\* The message ensure_login raises without credentials, per branch
\* (lines 117, 179, 236).
NoCredentialsMessage(branch) ==
    IF branch = "missing"
    THEN "No login state found and no credentials provided"
    ELSE "State file corrupted and no credentials provided"

\* The driver is left without closing what it launched.
pw_exit_keep(p) == [p EXCEPT !.driver = FALSE]

\* Leaving "with sync_playwright() as pw": the driver is stopped, and with it
\* every browser and context it launched that is still open.
pw_exit(p) ==
    [driver |-> FALSE,
     browser |-> IF p.browser = "open" THEN "closed" ELSE p.browser,
     context |-> IF p.context = "open" THEN "closed" ELSE p.context]

\* Browsers and contexts still open once the with block is left.
LeakedBy(p) == IF p.browser = "open" \/ p.context = "open" THEN 1 ELSE 0

\* pw.chromium.launch, browser.new_context, context.new_page (lines 248-253,
\* 328-333): fail = "launch" or "context" is the call that raised.
pw_launch(fail) ==
    [driver |-> TRUE,
     browser |-> IF fail = "launch" THEN "none" ELSE "open",
     context |-> IF fail = "none" THEN "open" ELSE "none"]

\* A fresh result is flagged as served from the cache.
StaleFlag == TRUE

\* "cached": False (lines 392, 488, 584, 773)
FreshFlag == FALSE

\* The result dict of an operation (lines 386-394, 482-490, 578-586, 764-774).
result_of(r, l, t) ==
    LET execution_time == Frac(t - l.start_time, 1)
    IN  CASE r.operation = "search_user" ->
                [users |-> l.users,
                 metadata |-> [query |-> r.subject, result_count |-> Len(l.users),
                               execution_time |-> execution_time, cached |-> FreshFlag]]
          [] r.operation = "timeline_tweet" ->
                [timelines |-> l.timeline,
                 hashtags |-> stats_of(l.hashtags_data, "hashtags"),
                 mentions |-> stats_of(l.mentions_data, "user_mention"),
                 metadata |-> [username |-> r.subject, total_tweets |-> Len(l.timeline),
                               analysis_period |-> t,
                               execution_time |-> execution_time, cached |-> FreshFlag]]
          [] OTHER ->
                [users |-> l.users,
                 metadata |-> [username |-> r.subject, result_count |-> Len(l.users),
                               execution_time |-> execution_time, cached |-> FreshFlag]]

\* Every operation stores its result with the user-data TTL.
ttl_of_uniform(operation) == cache_ttl_user_data

\* The TTL each operation stores its result with (lines 397, 493, 589, 776).
ttl_of(operation) ==
    IF operation = "timeline_tweet" THEN cache_ttl_timeline_data ELSE cache_ttl_user_data

(***************************************************************************)
(* Actions.                                                                *)
(***************************************************************************)
\* A task constructs a TwitterScraper and calls one of its operations.
Call(p) ==
    /\ pc[p] \in {"idle", "done"}
    /\ ncalls < MaxCalls
    /\ \E r \in Requests, creds \in {NoCreds, Supplied} :
          /\ call' = [call EXCEPT ![p] = r]
          /\ self' = [self EXCEPT ![p] = creds]
          /\ hist' = [hist EXCEPT ![p] = [NoHistory EXCEPT !.supplied = HasCredentials(creds)]]
          /\ pc' = [pc EXCEPT ![p] = IF r.operation = "login" THEN "login" ELSE "cache_get"]
    /\ ncalls' = ncalls + 1
    /\ loc' = [loc EXCEPT ![p] = NoLocals]
    /\ pw' = [pw EXCEPT ![p] = NoPlaywright]
    /\ outcome' = [outcome EXCEPT ![p] = NoOutcome]
    /\ UNCHANGED <<now, state_file, store, written, db, status, keyin, keyout>>

\* What redis_client.get met: an error of the transport, no live key, a text
\* that is no JSON, or a value.
met_by_get(st, key, t, redis_ok) ==
    IF ~redis_ok THEN "error"
    ELSE IF redis_get(st, key, t) = None THEN "absent"
    ELSE IF redis_get(st, key, t)[1].k = "garbage" THEN "garbage"
    ELSE "value"

\* Lines 310-314 (405-409, 501-505, 597-601): the cache is asked first.
CacheLookup(p) ==
    /\ pc[p] = "cache_get"
    /\ \E redis_ok \in BOOLEAN :
          LET cache_key == cache_key_of(call[p])
              cached_result == CacheManager_get(store, cache_key, now, redis_ok)
              live == redis_get(store, cache_key, now) # None
          IN  /\ hist' = [hist EXCEPT ![p].answered = redis_ok,
                                      ![p].expected = IF live THEN written[cache_key]
                                                      ELSE None,
                                      ![p].got = met_by_get(store, cache_key, now,
                                                            redis_ok)]
              /\ IF Truthy(cached_result)
                 THEN /\ outcome' = [outcome EXCEPT ![p] = Returned(cached_result)]
                      /\ pc' = [pc EXCEPT ![p] = "done"]
                 ELSE /\ outcome' = outcome
                      /\ pc' = [pc EXCEPT ![p] = "ensure_login"]
    /\ UNCHANGED <<now, state_file, store, written, db, ncalls, call, self, loc, pw,
                   status, keyin, keyout>>

\* ensure_login, lines 65-238, up to the call of login or the raise.
\* db_ok = FALSE is any exception of the fallback query.
EnsureLogin(p) ==
    /\ pc[p] = "ensure_login"
    /\ LET branch == ensure_login_branch(state_file)
           seen == [hist EXCEPT ![p].ensure = @ + 1, ![p].branch = branch,
                                ![p].valid = check_login_status(state_file, self[p],
                                                                now).session_valid]
       IN  IF branch = "found"
           THEN /\ pc' = [pc EXCEPT ![p] = "capture_launch"]
                /\ hist' = seen
                /\ UNCHANGED <<self, loc, outcome>>
           ELSE IF HasCredentials(self[p])
           THEN /\ pc' = [pc EXCEPT ![p] = "login"]
                /\ loc' = [loc EXCEPT ![p].login_mode = "explicit"]
                /\ hist' = seen
                /\ UNCHANGED <<self, outcome>>
           ELSE \E db_ok \in BOOLEAN :
                   LET found == get_fallback_credentials(db)
                   IN  IF db_ok /\ HasCredentials(found)
                       THEN /\ self' = [self EXCEPT ![p] = found]
                            /\ pc' = [pc EXCEPT ![p] = "login"]
                            /\ loc' = [loc EXCEPT ![p].login_mode = "fallback"]
                            /\ hist' = seen
                            /\ UNCHANGED outcome
                       ELSE /\ outcome' = [outcome EXCEPT ![p] =
                                   Raised(NoCredentialsMessage(branch),
                                          IF db_ok THEN "no active credentials"
                                          ELSE "fallback query failed")]
                            /\ pc' = [pc EXCEPT ![p] = "done"]
                            /\ hist' = seen
                            /\ UNCHANGED <<self, loc>>
    /\ UNCHANGED <<now, state_file, store, written, db, ncalls, call, pw, status,
                   keyin, keyout>>

\* How a ScrapingException of login reaches the caller of the operation:
\* login() called directly and ensure_login with the scraper's own credentials
\* let it through; the fallback of ensure_login catches it (lines 115-117,
\* 177-179, 234-236) and raises its own.
LoginFailure(p, cause) ==
    IF loc[p].login_mode = "fallback"
    THEN Raised(NoCredentialsMessage(hist[p].branch), cause)
    ELSE Raised("Login failed", cause)

\* login, lines 240-253: the credentials check, then the driver, the browser,
\* the context and the page.
LoginBegin(p) ==
    /\ pc[p] = "login"
    /\ IF ~HasCredentials(self[p])
       THEN /\ outcome' = [outcome EXCEPT ![p] =
                   Raised("Username and password required for login", "")]
            /\ pc' = [pc EXCEPT ![p] = "done"]
            /\ hist' = [hist EXCEPT ![p].logins = @ + 1]
            /\ UNCHANGED <<pw, loc>>
       ELSE \E fail \in {"none", "launch", "context"} :
               /\ pw' = [pw EXCEPT ![p] = pw_launch(fail)]
               /\ hist' = [hist EXCEPT ![p].logins = @ + 1,
                                       ![p].launches = IF fail = "launch" THEN @ ELSE @ + 1]
               /\ loc' = [loc EXCEPT ![p].exc = IF fail = "none" THEN "" ELSE "Error"]
               /\ pc' = [pc EXCEPT ![p] = IF fail = "none" THEN "login_flow"
                                          ELSE "login_exit"]
               /\ UNCHANGED outcome
    /\ UNCHANGED <<now, state_file, store, written, db, ncalls, call, self, status,
                   keyin, keyout>>

\* A marker that does not appear in time ends the login.
marker_wait_strict(appeared) == IF appeared THEN "" ELSE "TimeoutError"

\* Lines 273-277: the wait for the post-login marker inside a bare
\* try/except; the exception that leaves it (none).
marker_wait(appeared) == ""

\* login, lines 255-278: the login form; a navigation or a selector wait may
\* raise (ok = FALSE), the wait for the post-login marker may not.
LoginFlow(p) ==
    /\ pc[p] = "login_flow"
    /\ \E ok \in BOOLEAN, appeared \in BOOLEAN :
          LET exc == IF ok THEN marker_wait(appeared) ELSE "TimeoutError"
          IN  /\ loc' = [loc EXCEPT ![p].exc = exc,
                                    ![p].marker = IF ~ok THEN ""
                                                  ELSE IF appeared THEN "seen"
                                                  ELSE "timeout"]
              /\ pc' = [pc EXCEPT ![p] = IF exc = "" THEN "login_save" ELSE "login_exit"]
    /\ UNCHANGED <<now, state_file, store, written, db, ncalls, call, self, pw, outcome,
                   hist, status, keyin, keyout>>

\* login, lines 280-302: the session state is saved, checked and the context
\* and the browser are closed.
LoginSave(p) ==
    /\ pc[p] = "login_save"
    /\ \E jar \in LoginJars : state_file' = FileWith(jar)
    /\ hist' = [hist EXCEPT ![p].writes = @ + 1]
    /\ pw' = [pw EXCEPT ![p].context = "closed", ![p].browser = "closed"]
    /\ pc' = [pc EXCEPT ![p] = "login_exit"]
    /\ UNCHANGED <<now, store, written, db, ncalls, call, self, loc, outcome, status,
                   keyin, keyout>>

\* login, lines 247 and 304-306: the with block is left; an exception is
\* wrapped and raised, else login returns to its caller.
LoginExit(p) ==
    /\ pc[p] = "login_exit"
    /\ pw' = [pw EXCEPT ![p] = pw_exit(pw[p])]
    /\ hist' = [hist EXCEPT ![p].leaked = @ + LeakedBy(pw_exit(pw[p]))]
    /\ IF loc[p].exc # ""
       THEN /\ outcome' = [outcome EXCEPT ![p] = LoginFailure(p, loc[p].exc)]
            /\ pc' = [pc EXCEPT ![p] = "done"]
            /\ loc' = [loc EXCEPT ![p] = NoLocals]
       ELSE IF call[p].operation = "login"
       THEN /\ outcome' = [outcome EXCEPT ![p] = Returned(None)]
            /\ pc' = [pc EXCEPT ![p] = "done"]
            /\ loc' = [loc EXCEPT ![p] = NoLocals]
       ELSE /\ pc' = [pc EXCEPT ![p] = "capture_launch"]
            /\ loc' = [loc EXCEPT ![p].marker = ""]
            /\ UNCHANGED outcome
    /\ UNCHANGED <<now, state_file, store, written, db, ncalls, call, self, status,
                   keyin, keyout>>

\* The state file is left without its cookies.
storage_state_taken(file) == FileWith(<<>>)

\* browser.new_context(storage_state=self.state_file), lines 329-332: the
\* state file after the context was seeded from it.
storage_state_read(file) == file

\* Lines 317-333 (412-428, 508-524, 604-622): the start time, the driver, the
\* browser and the context seeded with the state file.  new_context raises on
\* a state file that is missing or does not parse.
CaptureLaunch(p) ==
    /\ pc[p] = "capture_launch"
    /\ \E fail \in {"none", "launch", "context"} :
          /\ state_file.kind # "json" => fail # "none"
          /\ state_file' = IF fail = "none" THEN storage_state_read(state_file)
                           ELSE state_file
          /\ pw' = [pw EXCEPT ![p] = pw_launch(fail)]
          /\ hist' = [hist EXCEPT ![p].capture = TRUE,
                                  ![p].launches = IF fail = "launch" THEN @ ELSE @ + 1]
          /\ loc' = [loc EXCEPT ![p].start_time = now,
                                ![p].exc = IF fail = "none" THEN "" ELSE "Error"]
          /\ pc' = [pc EXCEPT ![p] = IF fail = "none" THEN "capture_navigate"
                                     ELSE "capture_exit"]
    /\ UNCHANGED <<now, store, written, db, ncalls, call, self, outcome,
                   status, keyin, keyout>>

\* Lines 335-338 (430-433, 526-529, 624-627): the page is opened and waited
\* for, while the responses are intercepted; goto or wait_for_selector may
\* raise (a timeout).
CaptureNavigate(p) ==
    /\ pc[p] = "capture_navigate"
    /\ \/ /\ loc' = [loc EXCEPT ![p].exc = "TimeoutError"]
          /\ pc' = [pc EXCEPT ![p] = "capture_exit"]
       \/ /\ call[p].operation # "timeline_tweet"
          /\ \E feed \in UserFeedsFor(call[p]) :
                loc' = [loc EXCEPT ![p].xhr_calls = feed]
          /\ pc' = [pc EXCEPT ![p] = "extract"]
       \/ /\ call[p].operation = "timeline_tweet"
          /\ \E feed \in TimelineFeedsFor(call[p]) :
                loc' = [loc EXCEPT ![p].xhr_calls = Head(feed), ![p].feed = Tail(feed)]
          /\ pc' = [pc EXCEPT ![p] = "scroll_init"]
    /\ UNCHANGED <<now, state_file, store, written, db, ncalls, call, self, pw, outcome,
                   hist, status, keyin, keyout>>

\* Lines 340-380 (435-476, 531-572): the users of the first matching call.
ExtractUsers(p) ==
    /\ pc[p] = "extract"
    /\ LET calls == first_matching(loc[p].xhr_calls, InterceptPattern(call[p].operation))
           got == extract_users(call[p].operation, calls, call[p].n)
       IN  /\ loc' = [loc EXCEPT ![p].users = got.users, ![p].exc = got.exc]
           /\ pc' = [pc EXCEPT ![p] = IF got.exc = "" THEN "capture_close"
                                      ELSE "capture_exit"]
    /\ UNCHANGED <<now, state_file, store, written, db, ncalls, call, self, pw, outcome,
                   hist, status, keyin, keyout>>

\* timeline_tweet, lines 629-635: the loop variables.
ScrollInit(p) ==
    /\ pc[p] = "scroll_init"
    /\ loc' = [loc EXCEPT ![p].prev_height = -1,
                          ![p].max_scrolls = max_scrolls_of(call[p].n),
                          ![p].scroll_count = 0,
                          ![p].timeline = <<>>, ![p].hashtags_data = <<>>,
                          ![p].mentions_data = <<>>]
    /\ pc' = [pc EXCEPT ![p] = "scroll"]
    /\ UNCHANGED <<now, state_file, store, written, db, ncalls, call, self, pw, outcome,
                   hist, status, keyin, keyout>>

\* One pass more than the budget.
loop_continues_once_more(l) == l.scroll_count <= l.max_scrolls

\* The loop test of line 637.
loop_continues(l) == l.scroll_count < l.max_scrolls

\* timeline_tweet, lines 637-739: one pass of the loop.  The page is scrolled,
\* its height measured (either may raise); an unchanged height leaves the
\* loop, else the pass is counted and every UserTweets call intercepted so far
\* is processed.
ScrollPass(p) ==
    /\ pc[p] = "scroll"
    /\ loop_continues(loc[p])
    /\ \E new_height \in Heights \cup {EvaluateFailed} :
          IF new_height = EvaluateFailed
          THEN /\ hist' = [hist EXCEPT ![p].passes = @ + 1]
               /\ loc' = [loc EXCEPT ![p].exc = "Error"]
               /\ pc' = [pc EXCEPT ![p] = "capture_exit"]
          ELSE IF new_height = loc[p].prev_height
          THEN /\ hist' = [hist EXCEPT ![p].passes = @ + 1, ![p].stable = TRUE]
               /\ pc' = [pc EXCEPT ![p] = "capture_close"]
               /\ loc' = loc
          ELSE LET arrived == IF loc[p].feed = <<>> THEN <<>> ELSE Head(loc[p].feed)
                   xhr_calls == loc[p].xhr_calls \o arrived
                   acc == process_calls(
                              [timeline |-> loc[p].timeline,
                               hashtags_data |-> loc[p].hashtags_data,
                               mentions_data |-> loc[p].mentions_data, exc |-> ""],
                              user_tweets_calls(xhr_calls))
               IN  /\ hist' = [hist EXCEPT ![p].passes = @ + 1]
                   /\ loc' = [loc EXCEPT ![p].prev_height = new_height,
                                         ![p].scroll_count = @ + 1,
                                         ![p].xhr_calls = xhr_calls,
                                         ![p].feed = IF @ = <<>> THEN <<>> ELSE Tail(@),
                                         ![p].timeline = acc.timeline,
                                         ![p].hashtags_data = acc.hashtags_data,
                                         ![p].mentions_data = acc.mentions_data,
                                         ![p].exc = acc.exc]
                   /\ pc' = [pc EXCEPT ![p] = IF acc.exc = "" THEN "scroll"
                                              ELSE "capture_exit"]
    /\ UNCHANGED <<now, state_file, store, written, db, ncalls, call, self, pw, outcome,
                   status, keyin, keyout>>

\* timeline_tweet, line 637: the budget is used up.
ScrollEnd(p) ==
    /\ pc[p] = "scroll"
    /\ ~loop_continues(loc[p])
    /\ pc' = [pc EXCEPT ![p] = "capture_close"]
    /\ UNCHANGED <<now, state_file, store, written, db, ncalls, call, self, loc, pw,
                   outcome, hist, status, keyin, keyout>>

\* Lines 382-383 (478-479, 574-575, 741-742): context.close(), browser.close().
CaptureClose(p) ==
    /\ pc[p] = "capture_close"
    /\ pw' = [pw EXCEPT ![p].context = "closed", ![p].browser = "closed"]
    /\ pc' = [pc EXCEPT ![p] = "capture_store"]
    /\ UNCHANGED <<now, state_file, store, written, db, ncalls, call, self, loc,
                   outcome, hist, status, keyin, keyout>>

\* SET ... NX: a key that is alive keeps the value it has.
CacheManager_set_if_free(st, key, value, ttl, t, redis_ok) ==
    IF redis_ok /\ redis_get(st, key, t) = None
    THEN redis_setex(st, key, ttl, json_dumps(value), t) ELSE st

\* The value is stored although the transport failed.
CacheManager_set_anyway(st, key, value, ttl, t, redis_ok) ==
    redis_setex(st, key, ttl, json_dumps(value), t)

\* CacheManager.set(key, value, ttl), lines 34-41; redis_ok = FALSE is a
\* redis.RedisError.
CacheManager_set(st, key, value, ttl, t, redis_ok) ==
    IF redis_ok THEN redis_setex(st, key, ttl, json_dumps(value), t) ELSE st

\* Lines 385-397 (481-493, 577-589, 744-776): the result is built and stored.
CaptureStore(p) ==
    /\ pc[p] = "capture_store"
    /\ \E redis_ok \in BOOLEAN :
          LET result == result_of(call[p], loc[p], now)
              cache_key == cache_key_of(call[p])
          IN  /\ store' = CacheManager_set(store, cache_key, result,
                                           ttl_of(call[p].operation), now, redis_ok)
              /\ written' = IF redis_ok THEN [written EXCEPT ![cache_key] = Some(result)]
                            ELSE written
              /\ hist' = [hist EXCEPT ![p].sets = IF redis_ok THEN @ + 1 ELSE @,
                                      ![p].setfail = ~redis_ok]
              /\ loc' = [loc EXCEPT ![p].result = Some(result)]
    /\ pc' = [pc EXCEPT ![p] = "capture_exit"]
    /\ UNCHANGED <<now, state_file, db, ncalls, call, self, pw, outcome, status,
                   keyin, keyout>>

\* Lines 327 and 398-401 (and their like): the with block is left; the result
\* is returned, or the exception wrapped and raised.
CaptureExit(p) ==
    /\ pc[p] = "capture_exit"
    /\ pw' = [pw EXCEPT ![p] = pw_exit(pw[p])]
    /\ hist' = [hist EXCEPT ![p].leaked = @ + LeakedBy(pw_exit(pw[p])),
                            ![p].exc = loc[p].exc,
                            ![p].partial = IF loc[p].exc = "" THEN 0
                                           ELSE Len(loc[p].users) + Len(loc[p].timeline)]
    /\ outcome' = [outcome EXCEPT ![p] =
            IF loc[p].exc # ""
            THEN Raised(FailureMessage(call[p].operation), loc[p].exc)
            ELSE Returned(loc[p].result)]
    /\ loc' = [loc EXCEPT ![p] = NoLocals]
    /\ pc' = [pc EXCEPT ![p] = "done"]
    /\ UNCHANGED <<now, state_file, store, written, db, ncalls, call, self, status,
                   keyin, keyout>>

\* Time passes by one user-data TTL; Redis drops the keys whose TTL is over.
\* A call lasts seconds to minutes (its waits time out after 30 s), an hour is
\* 3600 s: the clock of the model, counted in TTLs, moves between calls.
Tick ==
    /\ now < MaxTicks * cache_ttl_user_data
    /\ \A p \in Workers : pc[p] \in {"idle", "done"}
    /\ now' = now + cache_ttl_user_data
    /\ store' = [key \in CacheKeys |->
                    IF store[key].present /\ store[key].exp <= now'
                    THEN Absent ELSE store[key]]
    /\ written' = [key \in CacheKeys |->
                    IF store[key].present /\ store[key].exp <= now'
                    THEN None ELSE written[key]]
    /\ UNCHANGED <<state_file, db, ncalls, pc, call, self, loc, pw, outcome, hist,
                   status, keyin, keyout>>

Step(p) ==
    \/ Call(p)
    \/ CacheLookup(p)
    \/ EnsureLogin(p)
    \/ LoginBegin(p)
    \/ LoginFlow(p)
    \/ LoginSave(p)
    \/ LoginExit(p)
    \/ CaptureLaunch(p)
    \/ CaptureNavigate(p)
    \/ ExtractUsers(p)
    \/ ScrollInit(p)
    \/ ScrollPass(p)
    \/ ScrollEnd(p)
    \/ CaptureClose(p)
    \/ CaptureStore(p)
    \/ CaptureExit(p)

Next == Step(1) \/ Tick

Spec == Init /\ [][Next]_vars

(***************************************************************************)
(* _generate_cache_key on its own: two parameter mappings are drawn, and   *)
(* the key of each is computed for the same operation.                     *)
(***************************************************************************)
\* The items a parameter mapping is made of: the parameter names of the
\* operations, with a string and an integer that print alike.
ParamItems == {Item(KeyOrder[i], v) : i \in DOMAIN KeyOrder, v \in {PyStr("1"), PyInt(1)}}

\* The dicts of at most MaxParams items: no key twice.
ParamDicts ==
    {d \in UNION {[1..n -> ParamItems] : n \in 0..MaxParams} :
        \A i, j \in DOMAIN d : d[i].key = d[j].key => i = j}

KeyOperations == {"search_user", "timeline_tweet"}

InitKey ==
    /\ InitWorkers
    /\ state_file = FileAbsent
    /\ db = <<>>
    /\ keyin \in [operation : KeyOperations, p1 : ParamDicts, p2 : ParamDicts]
    /\ keyout = NoKeyOut

\* self._generate_cache_key(operation, p1) and (operation, p2)
GenerateKeys ==
    /\ ~keyout.done
    /\ keyout' = [done |-> TRUE,
                  k1 |-> generate_cache_key(keyin.operation, keyin.p1),
                  k2 |-> generate_cache_key(keyin.operation, keyin.p2)]
    /\ UNCHANGED <<now, state_file, store, written, db, ncalls, pc, call, self, loc, pw,
                   outcome, hist, status, keyin>>

NextKey == GenerateKeys

SpecKey == InitKey /\ [][NextKey]_vars

\* C1: whenever two parameter mappings hold the same key/value pairs, in
\* whatever insertion order, _generate_cache_key gives the same key for the
\* same operation; the key is cache:<operation>:<digest>, its digest taken of
\* the parameters sorted by key.
C1_KeyIgnoresInsertionOrder ==
    keyout.done =>
        /\ {keyin.p1[i] : i \in DOMAIN keyin.p1} = {keyin.p2[i] : i \in DOMAIN keyin.p2}
              => keyout.k1 = keyout.k2
        /\ \A k \in {keyout.k1, keyout.k2} :
              k.prefix = "cache" /\ k.operation = keyin.operation
        /\ keyout.k1.digest = md5_hexdigest(json_dumps_sort_keys(keyin.p1))

\* Two mappings of the same two items in opposite orders got the same key.
C1_Witness ==
    /\ keyout.done
    /\ Len(keyin.p1) = 2
    /\ keyin.p2 = <<keyin.p1[2], keyin.p1[1]>>
    /\ keyout.k1 = keyout.k2

(***************************************************************************)
(* check_login_status on its own: any state file of a few cookies, asked   *)
(* about at any time.                                                      *)
(***************************************************************************)
\* The cookies of a state file: an authentication marker or not, without
\* expiry, never expiring, expired from the start, or good for one tick.
StatusCookies ==
    {Cookie(name, FALSE, 0) : name \in {"auth_token", "ct0", "twid", "guest_id"}}
    \cup {Cookie(name, TRUE, e) : name \in {"auth_token", "ct0", "twid", "guest_id"},
                                   e \in {-1, 0, cache_ttl_user_data}}

StatusFiles ==
    {FileAbsent, FileCorrupt, FileNoCookiesKey}
    \cup {FileWith(c) : c \in UNION {[1..n -> StatusCookies] : n \in 0..MaxCookies}}

InitStatus ==
    /\ InitWorkers
    /\ state_file \in StatusFiles
    /\ db = <<>>
    /\ keyin = NoKeyIn
    /\ keyout = NoKeyOut

\* A scraper is constructed and asked check_login_status().
CheckLoginStatus(p) ==
    /\ pc[p] \in {"idle", "done"}
    /\ \E creds \in {NoCreds, Supplied} :
          /\ self' = [self EXCEPT ![p] = creds]
          /\ status' = [status EXCEPT ![p] =
                [asked |-> TRUE, at |-> now,
                 report |-> check_login_status(state_file, creds, now)]]
    /\ UNCHANGED <<now, state_file, store, written, db, ncalls, pc, call, loc, pw,
                   outcome, hist, keyin, keyout>>

NextStatus == CheckLoginStatus(1) \/ Tick

SpecStatus == InitStatus /\ [][NextStatus]_vars

\* C5: a report of check_login_status has session_valid exactly when the
\* state file exists, parses and holds a cookie named auth_token, ct0 or twid
\* that has no expires field, or expires -1, or expires after the time of the
\* report.
C5_SessionValidIffAuthCookieUnexpired ==
    \A p \in Workers :
        status[p].asked =>
            (status[p].report.session_valid
             <=> /\ state_file.kind = "json"
                 /\ \E i \in DOMAIN state_file.cookies :
                       LET c == state_file.cookies[i]
                       IN  /\ c.name \in {"auth_token", "ct0", "twid"}
                           /\ \/ ~c.has_expires
                              \/ c.expires = -1
                              \/ c.expires > status[p].at)

\* A file whose only authentication cookie ran out with the tick, beside a
\* guest cookie that did not, was reported invalid.
C5_Witness ==
    /\ status[1].asked
    /\ status[1].at = cache_ttl_user_data
    /\ state_file = FileWith(<<Cookie("auth_token", TRUE, cache_ttl_user_data),
                               Cookie("guest_id", FALSE, 0)>>)
    /\ ~status[1].report.session_valid
    /\ status[1].report.valid_cookies_count = 1

(***************************************************************************)
(* The scroll loop of timeline_tweet on its own: the page is loaded, and   *)
(* the loop runs for any tweet_count and any sequence of page heights.     *)
(***************************************************************************)
\* The tweet_count of a call: the task queue accepts min_tweet_count to
\* max_tweet_count, a script calling the scraper passes any number.
TweetCounts == 0..(max_tweet_count + ExtraTweetCount)

InitScroll ==
    /\ now = 0
    /\ store = [key \in CacheKeys |-> Absent]
    /\ written = [key \in CacheKeys |-> None]
    /\ state_file = FileWith(<<AuthForever>>)
    /\ db = <<>>
    /\ ncalls = 1
    /\ pc = [p \in Workers |-> IF p = 1 THEN "scroll_init" ELSE "idle"]
    /\ \E n \in TweetCounts :
          call = [p \in Workers |-> IF p = 1 THEN Request("timeline_tweet", "bob", n)
                                    ELSE NoRequest]
    /\ self = [p \in Workers |-> NoCreds]
    /\ \E feed \in TimelineFeeds :
          loc = [p \in Workers |->
                    IF p = 1 THEN [NoLocals EXCEPT !.xhr_calls = Head(feed),
                                                   !.feed = Tail(feed)]
                    ELSE NoLocals]
    /\ pw = [p \in Workers |-> IF p = 1 THEN pw_launch("none") ELSE NoPlaywright]
    /\ outcome = [p \in Workers |-> NoOutcome]
    /\ hist = [p \in Workers |->
                  IF p = 1 THEN [NoHistory EXCEPT !.ensure = 1, !.launches = 1,
                                                  !.branch = "found", !.valid = TRUE,
                                                  !.capture = TRUE]
                  ELSE NoHistory]
    /\ status = [p \in Workers |-> NoStatus]
    /\ keyin = NoKeyIn
    /\ keyout = NoKeyOut

NextScroll == ScrollInit(1) \/ ScrollPass(1) \/ ScrollEnd(1)

SpecScroll == InitScroll /\ [][NextScroll]_vars

\* The interpreter keeps running the call: a statement that can be executed
\* is executed.
SpecScrollFair == SpecScroll /\ WF_vars(NextScroll)

\* C7: for a tweet_count within [min_tweet_count, max_tweet_count], the
\* counted scroll passes (_scroll_count) of timeline_tweet never exceed
\* ceil(tweet_count / 20), whatever heights the page reports.
C7_PassesWithinCeil ==
    \A p \in Workers :
        (/\ call[p].operation = "timeline_tweet"
         /\ min_tweet_count <= call[p].n /\ call[p].n <= max_tweet_count)
        => loc[p].scroll_count <= ceil_div(call[p].n, TweetsPerScroll)

\* A call for 40 tweets left the loop having counted ceil(40 / 20) = 2 passes.
C7_Witness ==
    /\ call[1].n = 40
    /\ pc[1] = "capture_close"
    /\ loc[1].scroll_count = 2
    /\ ~hist[1].stable

\* C8: the scroll-pass budget (_max_scrolls) is ceil(tweet_count / 20) for a
\* tweet_count within [min_tweet_count, max_tweet_count], and 1 outside.
C8_BudgetIsCeil ==
    \A p \in Workers :
        pc[p] = "scroll" =>
            loc[p].max_scrolls =
                IF min_tweet_count <= call[p].n /\ call[p].n <= max_tweet_count
                THEN ceil_div(call[p].n, TweetsPerScroll)
                ELSE 1

\* C9: the scroll loop always terminates; it is left only after a pass that
\* measured the height of the pass before, or with the budget used up (or by
\* an exception of the processing); for tweet_count = 100 it makes at most 5
\* passes.
C9_ScrollLoopTerminates ==
    /\ \A p \in Workers : (pc[p] \in {"scroll_init", "scroll"}) ~> (pc[p] \notin {"scroll_init", "scroll"})
    /\ [](\A p \in Workers :
            pc[p] = "capture_close" /\ call[p].operation = "timeline_tweet"
            => hist[p].stable \/ loc[p].scroll_count = loc[p].max_scrolls)
    /\ [](\A p \in Workers : hist[p].stable => pc[p] # "scroll")
    /\ [](\A p \in Workers :
            call[p].operation = "timeline_tweet" /\ call[p].n = 100 => hist[p].passes <= 5)

\* A call for 100 tweets left the loop after 5 passes.
C9_Witness ==
    /\ call[1].n = 100
    /\ pc[1] = "capture_close"
    /\ hist[1].passes = 5
    /\ loc[1].scroll_count = 5

\* A call for 100 tweets left the loop at its third pass, the height unchanged.
C9_WitnessStable ==
    /\ call[1].n = 100
    /\ pc[1] = "capture_close"
    /\ hist[1].passes = 3
    /\ hist[1].stable

(***************************************************************************)
(* Claims about the calls of the scraper (Spec).                           *)
(***************************************************************************)
\* C2: while a value v stored by a successful set(k, v, ttl) is neither
\* expired nor overwritten, a get(k) the store answers returns v in every
\* field, except that metadata.cached is true.
C2_GetReturnsWhatSetStored ==
    \A p \in Workers :
        (hist[p].answered /\ hist[p].expected # None) =>
            /\ outcome[p].kind = "return"
            /\ outcome[p].value # None
            /\ LET v == hist[p].expected[1]
                   got == outcome[p].value[1]
               IN  /\ DOMAIN got = DOMAIN v
                   /\ \A f \in DOMAIN v \ {"metadata"} : got[f] = v[f]
                   /\ DOMAIN got.metadata = DOMAIN v.metadata
                   /\ \A f \in DOMAIN v.metadata \ {"cached"} : got.metadata[f] = v.metadata[f]
                   /\ got.metadata.cached = TRUE
                   /\ v.metadata.cached = FALSE

\* A timeline with a tweet, hashtags and mentions was stored and got back
\* after a tick, within its TTL.
C2_Witness ==
    /\ pc[1] = "done"
    /\ call[1].operation = "timeline_tweet"
    /\ hist[1].answered
    /\ hist[1].expected # None
    /\ outcome[1].kind = "return"
    /\ Len(outcome[1].value[1].timelines) > 0
    /\ Len(outcome[1].value[1].hashtags) > 0
    /\ now = cache_ttl_user_data

\* C3: a search_user call that follows a successful one with the same query
\* and limit, within the TTL, returns the users of the first with
\* metadata.cached = true, and neither checks the session, nor logs in, nor
\* launches a browser.
C3_SecondSearchServedFromCache ==
    \A p \in Workers :
        (/\ pc[p] = "done"
         /\ call[p].operation = "search_user"
         /\ hist[p].answered
         /\ hist[p].expected # None)
        => /\ outcome[p].kind = "return"
           /\ outcome[p].value # None
           /\ outcome[p].value[1].users = hist[p].expected[1].users
           /\ outcome[p].value[1].metadata.cached = TRUE
           /\ hist[p].ensure = 0
           /\ hist[p].logins = 0
           /\ hist[p].launches = 0
           /\ hist[p].writes = 0
           /\ pw[p] = NoPlaywright

\* The second search for alice with limit 1 returned the user the first found.
C3_Witness ==
    /\ pc[1] = "done"
    /\ ncalls = 2
    /\ call[1] = Request("search_user", "alice", 1)
    /\ hist[1].answered
    /\ hist[1].expected # None
    /\ outcome[1].kind = "return"
    /\ Len(outcome[1].value[1].users) = 1
    /\ hist[1].launches = 0

\* C4: with the state file absent or without cookies, no credentials given to
\* the scraper and no active row in the credential table, a scraping operation
\* that misses the cache fails with the no-credentials error; no browser is
\* launched, no state file written, nothing stored in the cache.
C4_NoCredentialsFailsBeforeBrowser ==
    \A p \in Workers :
        (/\ pc[p] = "done"
         /\ call[p].operation \in ScrapeOperations
         /\ hist[p].ensure > 0
         /\ hist[p].branch \in {"missing", "no_cookies"}
         /\ ~hist[p].supplied
         /\ \A i \in DOMAIN db : ~db[i].is_active)
        => /\ outcome[p].kind = "raise"
           /\ outcome[p].error \in NoCredentialsErrors
           /\ hist[p].logins = 0
           /\ hist[p].launches = 0
           /\ hist[p].writes = 0
           /\ hist[p].sets = 0
           /\ pw[p] = NoPlaywright

\* A timeline call found a state file without cookies, a table with an
\* inactive row only, and failed.
C4_Witness ==
    /\ pc[1] = "done"
    /\ call[1].operation = "timeline_tweet"
    /\ hist[1].branch = "no_cookies"
    /\ ~hist[1].supplied
    /\ Len(db) = 1
    /\ outcome[1].kind = "raise"
    /\ outcome[1].cause = "no active credentials"

\* C6: a capture that starts without a login before it starts from a session
\* check_login_status judges valid.
C6_CaptureWithoutLoginOnlyWhenValid ==
    \A p \in Workers :
        (hist[p].capture /\ hist[p].logins = 0) => hist[p].valid

\* C10: when login or a scraping operation has returned or raised, no browser
\* and no context it launched is open.
C10_BrowserClosedOnEveryExit ==
    \A p \in Workers :
        pc[p] = "done" =>
            /\ pw[p].browser # "open"
            /\ pw[p].context # "open"
            /\ ~pw[p].driver
            /\ hist[p].leaked = 0

\* A timeline call whose page never got ready raised, its browser closed.
C10_Witness ==
    /\ pc[1] = "done"
    /\ call[1].operation = "timeline_tweet"
    /\ outcome[1].kind = "raise"
    /\ outcome[1].cause = "TimeoutError"
    /\ hist[1].launches = 1
    /\ pw[1].browser = "closed"
    /\ pw[1].context = "closed"

\* A followers call that raised while extracting left its browser closed.
C10_WitnessExtraction ==
    /\ pc[1] = "done"
    /\ call[1].operation = "followers_user"
    /\ outcome[1].kind = "raise"
    /\ outcome[1].cause \notin {"TimeoutError", "Error"}
    /\ hist[1].launches = 1
    /\ pw[1].browser = "closed"

(***************************************************************************)
(* One capture on its own: a scraping call about ProbeSubject that missed  *)
(* the cache and found a session, from the launch of the browser to its    *)
(* return or raise.                                                        *)
(***************************************************************************)
CaptureRequests ==
    {Request("search_user", ProbeSubject, 1), Request("search_user", ProbeSubject, 3),
     Request("following_user", ProbeSubject, 3), Request("followers_user", ProbeSubject, 3),
     Request("timeline_tweet", ProbeSubject, 20), Request("timeline_tweet", ProbeSubject, 40)}

CaptureKeys == {cache_key_of(r) : r \in CaptureRequests}

InitCapture ==
    /\ now = 0
    /\ store = [key \in CaptureKeys |-> Absent]
    /\ written = [key \in CaptureKeys |-> None]
    /\ state_file = FileWith(<<AuthForever>>)
    /\ db = <<>>
    /\ ncalls = 1
    /\ pc = [p \in Workers |-> IF p = 1 THEN "capture_launch" ELSE "idle"]
    /\ \E r \in CaptureRequests :
          call = [p \in Workers |-> IF p = 1 THEN r ELSE NoRequest]
    /\ self = [p \in Workers |-> NoCreds]
    /\ loc = [p \in Workers |-> NoLocals]
    /\ pw = [p \in Workers |-> NoPlaywright]
    /\ outcome = [p \in Workers |-> NoOutcome]
    /\ hist = [p \in Workers |->
                  IF p = 1 THEN [NoHistory EXCEPT !.ensure = 1, !.branch = "found",
                                                  !.valid = TRUE]
                  ELSE NoHistory]
    /\ status = [p \in Workers |-> NoStatus]
    /\ keyin = NoKeyIn
    /\ keyout = NoKeyOut

NextCapture ==
    \/ CaptureLaunch(1)
    \/ CaptureNavigate(1)
    \/ ExtractUsers(1)
    \/ ScrollInit(1)
    \/ ScrollPass(1)
    \/ ScrollEnd(1)
    \/ CaptureClose(1)
    \/ CaptureStore(1)
    \/ CaptureExit(1)

SpecCapture == InitCapture /\ [][NextCapture]_vars

\* C11: a capture is all or nothing: when the launch, the navigation, a
\* scroll or the extraction raises, the operation raises its one wrapped
\* failure with the cause, returns nothing of what it had captured and
\* stores nothing in the cache.
C11_CaptureAllOrNothing ==
    \A p \in Workers :
        /\ (pc[p] = "capture_exit" /\ loc[p].exc # "") =>
              /\ loc[p].result = None
              /\ hist[p].sets = 0
              /\ ~store[cache_key_of(call[p])].present
        /\ (pc[p] = "done" /\ hist[p].capture /\ hist[p].exc # "") =>
              /\ outcome[p].kind = "raise"
              /\ outcome[p].value = None
              /\ outcome[p].error = FailureMessage(call[p].operation)
              /\ outcome[p].cause = hist[p].exc
              /\ hist[p].sets = 0
              /\ ~store[cache_key_of(call[p])].present
        /\ (pc[p] = "done" /\ hist[p].capture /\ outcome[p].kind = "return") =>
              hist[p].exc = "" /\ outcome[p].value # None

\* A timeline call had captured tweets when its second scroll raised: it
\* raised, and nothing was stored.
C11_Witness ==
    /\ pc[1] = "done"
    /\ call[1].operation = "timeline_tweet"
    /\ hist[1].exc = "Error"
    /\ hist[1].passes = 2
    /\ hist[1].partial > 0
    /\ outcome[1].kind = "raise"
    /\ outcome[1].value = None

\* C12: the user list extracted from a batch holds the record of every
\* well-formed entry of the batch, whatever malformed entries stand beside
\* them, and the extraction never raises.
C12_MalformedEntriesNeverFail ==
    \A p \in Workers :
        (/\ pc[p] \in {"capture_close", "capture_store", "capture_exit"}
         /\ call[p].operation \in {"search_user", "following_user", "followers_user"}
         /\ Len(loc[p].xhr_calls) = 1
         /\ loc[p].xhr_calls[1].name = InterceptPattern(call[p].operation)
         /\ loc[p].xhr_calls[1].shape = "ok")
        => LET entries == loc[p].xhr_calls[1].entries
               kept == IF Len(entries) > 2 THEN SubSeq(entries, 1, Len(entries) - 2)
                       ELSE entries
               batch == SubSeq(kept, 1, Min(call[p].n, Len(kept)))
               good == SelectSeq(batch, LAMBDA e : e.shape = "user")
               id(u) == IF "user_id" \in DOMAIN u THEN u.user_id ELSE u.id
           IN  /\ loc[p].exc = ""
               /\ Len(SelectSeq(loc[p].users,
                                LAMBDA u : \E i \in DOMAIN good : id(u) = good[i].id))
                  = Len(good)

\* C13: after a counted pass that did not raise, the timeline holds a record
\* for every entry of the call that has a tweet id, and none without an id.
C13_TweetKeptByIdAlone ==
    \A p \in Workers :
        (/\ pc[p] \in {"capture_close", "capture_store", "capture_exit"}
         /\ call[p].operation = "timeline_tweet"
         /\ loc[p].scroll_count > 0
         /\ loc[p].exc = ""
         /\ Len(loc[p].xhr_calls) = 1
         /\ loc[p].xhr_calls[1].name = InterceptPattern(call[p].operation)
         /\ loc[p].xhr_calls[1].shape = "ok")
        => LET entries == loc[p].xhr_calls[1].entries
               kept == IF Len(entries) > 2 THEN SubSeq(entries, 1, Len(entries) - 2)
                       ELSE entries
               withid == SelectSeq(kept, LAMBDA e : e.shape # "cursor" /\ e.id # "")
           IN  /\ \A i \in DOMAIN withid :
                     \E j \in DOMAIN loc[p].timeline : loc[p].timeline[j].id = withid[i].id
               /\ \A j \in DOMAIN loc[p].timeline : loc[p].timeline[j].id # ""

\* C14: the records of an operation come from the entries that are left when
\* the last two are removed from a list of more than two (a list of two or
\* fewer is mapped whole): no record comes from a removed entry.
C14_TrailingTwoRemoved ==
    \A p \in Workers :
        (/\ pc[p] \in {"capture_close", "capture_store", "capture_exit"}
         /\ call[p].operation \in ScrapeOperations
         /\ loc[p].exc = ""
         /\ Len(loc[p].xhr_calls) = 1
         /\ loc[p].xhr_calls[1].name = InterceptPattern(call[p].operation)
         /\ loc[p].xhr_calls[1].shape = "ok")
        => LET entries == loc[p].xhr_calls[1].entries
               kept == IF Len(entries) > 2 THEN SubSeq(entries, 1, Len(entries) - 2)
                       ELSE entries
               batch == SubSeq(kept, 1, Min(call[p].n, Len(kept)))
               users == SelectSeq(batch, LAMBDA e : e.shape \in {"user", "no_subdicts"})
               tweets == SelectSeq(kept, LAMBDA e : e.shape \in {"tweet", "no_subdicts"})
               id(u) == IF "user_id" \in DOMAIN u THEN u.user_id ELSE u.id
           IN  IF call[p].operation = "timeline_tweet"
               THEN /\ Len(loc[p].timeline) = loc[p].scroll_count * Len(tweets)
                    /\ \A j \in DOMAIN loc[p].timeline :
                          \E i \in DOMAIN tweets : loc[p].timeline[j].id = tweets[i].id
               ELSE [j \in DOMAIN loc[p].users |-> id(loc[p].users[j])]
                    = [i \in DOMAIN users |-> users[i].id]

\* Of three well-formed users only the first was mapped.
C14_Witness ==
    /\ pc[1] = "capture_close"
    /\ call[1] = Request("followers_user", ProbeSubject, 3)
    /\ loc[1].xhr_calls = <<Response("Followers", "ok",
                                     <<UserEntry("2", "ben", 0, FALSE),
                                       UserEntry("1", "ann", 5, TRUE),
                                       UserEntry("1", "ann", 5, TRUE)>>)>>
    /\ Len(loc[1].users) = 1
    /\ loc[1].users[1].id = "2"

\* Of two well-formed tweets both were mapped.
C14_WitnessShort ==
    /\ pc[1] = "capture_close"
    /\ call[1] = Request("timeline_tweet", ProbeSubject, 20)
    /\ Len(loc[1].xhr_calls) = 1
    /\ Len(loc[1].xhr_calls[1].entries) = 2
    /\ Len(loc[1].timeline) = 2
    /\ loc[1].timeline[1].id # loc[1].timeline[2].id

\* C15: the tweets of a call are in the timeline with engagement
\* (views + likes + retweets + replies + quotes) / max(followers, 1) * 100,
\* and an author without followers does not abort the operation.
C15_EngagementDividesByAtLeastOne ==
    \A p \in Workers :
        (/\ pc[p] \in {"capture_close", "capture_store", "capture_exit"}
         /\ call[p].operation = "timeline_tweet"
         /\ hist[p].passes > 0
         /\ loc[p].exc \notin {"Error", "TimeoutError"}
         /\ Len(loc[p].xhr_calls) = 1
         /\ loc[p].xhr_calls[1].name = InterceptPattern(call[p].operation)
         /\ loc[p].xhr_calls[1].shape = "ok")
        => LET entries == loc[p].xhr_calls[1].entries
               kept == IF Len(entries) > 2 THEN SubSeq(entries, 1, Len(entries) - 2)
                       ELSE entries
               tweets == SelectSeq(kept, LAMBDA e : e.shape = "tweet")
               divisor(e) == IF e.followers > 1 THEN e.followers ELSE 1
           IN  /\ loc[p].exc = ""
               /\ loc[p].scroll_count > 0 =>
                     \A i \in DOMAIN tweets :
                        \E j \in DOMAIN loc[p].timeline :
                           /\ loc[p].timeline[j].id = tweets[i].id
                           /\ loc[p].timeline[j].engagement =
                                 Frac((tweets[i].views + tweets[i].likes + tweets[i].retweet
                                       + tweets[i].reply + tweets[i].quote) * 100,
                                      divisor(tweets[i]))

\* The sum of two fractions, and of the percentages of a list of statistics.
FracAdd(a, b) == Frac(a.num * b.den + b.num * a.den, a.den * b.den)

RECURSIVE SumPercentages(_)
SumPercentages(stats) ==
    IF stats = <<>> THEN Frac(0, 1)
    ELSE FracAdd(Head(stats).percentage, SumPercentages(Tail(stats)))

\* The statistics of one kind are those of count / total * 100.
SharesOfTotal(stats) ==
    LET total == SumCounts(stats)
        sum == SumPercentages(stats)
    IN  IF total > 0
        THEN /\ \A i \in DOMAIN stats :
                   /\ stats[i].percentage.den > 0
                   /\ stats[i].percentage.num * total
                        = stats[i].count * 100 * stats[i].percentage.den
             /\ sum.num = 100 * sum.den
        ELSE \A i \in DOMAIN stats : stats[i].percentage.num = 0

CacheRequests ==
    {Request("search_user", "alice", 1), Request("following_user", "bob", 1),
     Request("followers_user", "bob", 1), Request("timeline_tweet", "bob", 20)}

CachedKeys == {cache_key_of(r) : r \in CacheRequests}

\* The instants the clock stops at: the start, and the last second before
\* and the first second after each TTL of an entry stored at the start.
Instants ==
    {0, cache_ttl_user_data - 1, cache_ttl_user_data,
     cache_ttl_timeline_data - 1, cache_ttl_timeline_data}

InitCache ==
    /\ now = 0
    /\ store = [key \in CachedKeys |-> Absent]
    /\ written = [key \in CachedKeys |-> None]
    /\ ncalls = 0
    /\ pc = [p \in Workers |-> "idle"]
    /\ call = [p \in Workers |-> NoRequest]
    /\ self = [p \in Workers |-> NoCreds]
    /\ loc = [p \in Workers |-> NoLocals]
    /\ pw = [p \in Workers |-> NoPlaywright]
    /\ outcome = [p \in Workers |-> NoOutcome]
    /\ hist = [p \in Workers |-> NoHistory]
    /\ status = [p \in Workers |-> NoStatus]
    /\ state_file = FileWith(<<AuthForever>>)
    /\ db = <<>>
    /\ keyin = NoKeyIn
    /\ keyout = NoKeyOut

\* A task of a worker whose scraper has no credentials of its own calls a
\* scraping operation.
CacheCall(p) ==
    /\ pc[p] \in {"idle", "done"}
    /\ ncalls < MaxCalls
    /\ \E r \in CacheRequests :
          /\ call' = [call EXCEPT ![p] = r]
          /\ pc' = [pc EXCEPT ![p] = "cache_get"]
    /\ self' = [self EXCEPT ![p] = NoCreds]
    /\ hist' = [hist EXCEPT ![p] = NoHistory]
    /\ ncalls' = ncalls + 1
    /\ loc' = [loc EXCEPT ![p] = NoLocals]
    /\ pw' = [pw EXCEPT ![p] = NoPlaywright]
    /\ outcome' = [outcome EXCEPT ![p] = NoOutcome]
    /\ UNCHANGED <<now, state_file, store, written, db, status, keyin, keyout>>

\* Time passes between two calls, up to the next instant; Redis drops the keys whose TTL is over.
Elapse ==
    /\ \A p \in Workers : pc[p] \in {"idle", "done"}
    /\ \E t \in Instants :
          /\ t > now
          /\ \A u \in Instants : u > now => t <= u
          /\ now' = t
    /\ store' = [key \in CachedKeys |->
                    IF store[key].present /\ store[key].exp <= now'
                    THEN Absent ELSE store[key]]
    /\ written' = [key \in CachedKeys |->
                    IF store[key].present /\ store[key].exp <= now'
                    THEN None ELSE written[key]]
    /\ UNCHANGED <<state_file, db, ncalls, pc, call, self, loc, pw, outcome, hist,
                   status, keyin, keyout>>

\* Another client sets a free key of the keyspace to a text json.loads
\* rejects (one such text at a time).
ForeignWrite ==
    /\ \A p \in Workers : pc[p] \in {"idle", "done"}
    /\ \A k \in CachedKeys : store[k].present => store[k].doc.k # "garbage"
    /\ \E key \in CachedKeys :
          /\ ~store[key].present
          /\ store' = redis_setex(store, key, cache_ttl_user_data, JGarbage, now)
          /\ written' = [written EXCEPT ![key] = None]
    /\ UNCHANGED <<now, state_file, db, ncalls, pc, call, self, loc, pw, outcome, hist,
                   status, keyin, keyout>>

NextCache ==
    \/ CacheCall(1)
    \/ CacheLookup(1)
    \/ EnsureLogin(1)
    \/ CaptureLaunch(1)
    \/ CaptureNavigate(1)
    \/ ExtractUsers(1)
    \/ ScrollInit(1)
    \/ ScrollPass(1)
    \/ ScrollEnd(1)
    \/ CaptureClose(1)
    \/ CaptureStore(1)
    \/ CaptureExit(1)
    \/ Elapse
    \/ ForeignWrite

SpecCache == InitCache /\ [][NextCache]_vars

\* C17: a get that met a transport error or a text that does not decode is a
\* miss: the call is not answered from the cache and does not fail there, it
\* goes on to the session check and, with a session, to the capture.
C17_CacheErrorIsMiss ==
    \A p \in Workers :
        hist[p].got \in {"error", "garbage"} =>
            /\ pc[p] # "cache_get"
            /\ pc[p] = "ensure_login" => outcome[p] = NoOutcome
            /\ pc[p] # "ensure_login" =>
                  /\ hist[p].ensure = 1
                  /\ hist[p].branch = "found" => (hist[p].capture \/ pc[p] = "capture_launch")
            /\ pc[p] = "done" =>
                  /\ hist[p].capture
                  /\ outcome[p].kind = "return" =>
                        /\ outcome[p].value # None
                        /\ ~outcome[p].value[1].metadata.cached
                  /\ outcome[p].kind = "raise" =>
                        outcome[p].error = FailureMessage(call[p].operation)

\* The second search met a transport error while the result of the first
\* was still stored: it captured again.
C17_Witness ==
    /\ pc[1] = "done"
    /\ ncalls = 2
    /\ call[1].operation = "search_user"
    /\ hist[1].got = "error"
    /\ redis_get(store, cache_key_of(call[1]), now) # None
    /\ hist[1].capture
    /\ outcome[1].kind = "return"

\* A followers call found a text that is no JSON under its key and captured.
C17_WitnessUndecodable ==
    /\ pc[1] = "done"
    /\ call[1].operation = "followers_user"
    /\ hist[1].got = "garbage"
    /\ hist[1].capture
    /\ outcome[1].kind = "return"

C19_CachedFlagOnlyOnRead ==
    /\ \A key \in DOMAIN written :
          written[key] # None => ~written[key][1].metadata.cached
    /\ \A key \in DOMAIN store :
          (store[key].present /\ store[key].doc.k # "garbage") =>
              ~json_loads(store[key].doc).metadata.cached
    /\ \A p \in Workers :
          (/\ pc[p] = "done"
           /\ call[p].operation \in ScrapeOperations
           /\ outcome[p].kind = "return")
          => /\ outcome[p].value # None
             /\ outcome[p].value[1].metadata.cached
                   <=> (hist[p].got = "value" /\ ~hist[p].capture)

\* A timeline was answered from the cache with cached = true, while the
\* stored text still says cached = false.
C19_Witness ==
    /\ pc[1] = "done"
    /\ ncalls = 2
    /\ call[1].operation = "timeline_tweet"
    /\ hist[1].got = "value"
    /\ ~hist[1].capture
    /\ outcome[1].kind = "return"
    /\ outcome[1].value[1].metadata.cached
    /\ store[cache_key_of(call[1])].present
    /\ ~json_loads(store[cache_key_of(call[1])].doc).metadata.cached

\* The operations that store user data.
UserDataOperations == {"search_user", "following_user", "followers_user"}

\* C20: search, following and followers store their result with the
\* user-data TTL and timeline with the longer timeline TTL; an entry is in
\* the store only while its TTL has not elapsed, a get that the store answers
\* serves the entry of its key exactly while it is there, and otherwise the
\* call goes on to a fresh capture.
C20_EntryLivesForItsTTL ==
    /\ cache_ttl_user_data < cache_ttl_timeline_data
    /\ [](\A key \in DOMAIN store : store[key].present => now < store[key].exp)
    /\ [][\A p \in Workers :
             LET key == cache_key_of(call[p])
             IN  /\ (/\ pc[p] = "capture_store"
                     /\ pc'[p] = "capture_exit"
                     /\ hist'[p].sets = hist[p].sets + 1)
                    => /\ store'[key].present
                       /\ call[p].operation \in UserDataOperations =>
                             store'[key].exp = now + cache_ttl_user_data
                       /\ call[p].operation = "timeline_tweet" =>
                             store'[key].exp = now + cache_ttl_timeline_data
                 /\ (/\ pc[p] = "cache_get"
                     /\ pc'[p] # "cache_get"
                     /\ hist'[p].answered)
                    => IF /\ store[key].present
                          /\ now < store[key].exp
                          /\ store[key].doc.k # "garbage"
                       THEN /\ pc'[p] = "done"
                            /\ outcome'[p].kind = "return"
                            /\ outcome'[p].value = Some(MarkCached(json_loads(store[key].doc)))
                       ELSE /\ pc'[p] = "ensure_login"
                            /\ outcome'[p] = NoOutcome]_vars

\* A timeline stored at the start was served from the cache one second before
\* the timeline TTL was over, long after the user-data TTL.
C20_Witness ==
    /\ pc[1] = "done"
    /\ ncalls = 2
    /\ call[1].operation = "timeline_tweet"
    /\ now = cache_ttl_timeline_data - 1
    /\ store[cache_key_of(call[1])].present
    /\ store[cache_key_of(call[1])].exp = cache_ttl_timeline_data
    /\ hist[1].got = "value"
    /\ ~hist[1].capture
    /\ outcome[1].kind = "return"
    /\ outcome[1].value[1].metadata.cached

\* When the user-data TTL was over a search found its key free, captured and
\* stored again.
C20_WitnessExpired ==
    /\ pc[1] = "done"
    /\ ncalls = 2
    /\ call[1].operation = "search_user"
    /\ now = cache_ttl_user_data
    /\ hist[1].got = "absent"
    /\ hist[1].capture
    /\ hist[1].sets = 1
    /\ store[cache_key_of(call[1])].exp = 2 * cache_ttl_user_data

(***************************************************************************)
(* invalidate_user_cache (cache_manager.py, lines 51-72).  Redis matches   *)
(* a glob pattern against the text of a key, so the digests of the keys    *)
(* are needed as the texts they are: hexdigest_text gives, for the         *)
(* parameter texts of this specification, the 32 hexadecimal digits MD5    *)
(* yields for them.                                                        *)
(***************************************************************************)
\* The requests whose results are in the store, of two usernames.
InvalidateRequests ==
    {Request(operation, username, 10) :
        operation \in {"search_user", "following_user", "followers_user"},
        username \in {"bob", "ed"}}
    \cup {Request("timeline_tweet", username, 20) : username \in {"bob", "ed"}}

InvalidateKeys == {cache_key_of(r) : r \in InvalidateRequests}

\* The characters of a text.
Chars(text) ==
    CASE text = "bob" -> <<"b", "o", "b">>
      [] text = "ed" -> <<"e", "d">>
      [] OTHER -> <<>>

\* hashlib.md5(param_string.encode()).hexdigest() as text, for
\*   {"limit": 10, "username": "bob"} -> 9657eda80ae9be3d28c1f72c6a1b10dc
\*   {"tweet_count": 20, "username": "bob"} -> f7e16411d110e2e3e755764d32d71c99
\*   {"limit": 10, "username": "ed"} -> cdaac6b09cde867f5ef832805edb396f
\*   {"tweet_count": 20, "username": "ed"} -> dc5c28b8d3bca867c27739989d2e1b65
\*   {"limit": 10, "query": "bob"} -> d2278183c58be4208fe9e7a65402bc7e
\*   {"limit": 10, "query": "ed"} -> 0f0d050d8d94b7c8989d16156c8ff1b7
hexdigest_text(digest) ==
    CASE digest = md5_hexdigest(json_dumps_sort_keys(
                  <<Item("username", PyStr("bob")), Item("limit", PyInt(10))>>)) ->
             <<"9", "6", "5", "7", "e", "d", "a", "8", "0", "a", "e", "9", "b", "e", "3", "d",
               "2", "8", "c", "1", "f", "7", "2", "c", "6", "a", "1", "b", "1", "0", "d", "c">>
      [] digest = md5_hexdigest(json_dumps_sort_keys(
                  <<Item("username", PyStr("bob")), Item("tweet_count", PyInt(20))>>)) ->
             <<"f", "7", "e", "1", "6", "4", "1", "1", "d", "1", "1", "0", "e", "2", "e", "3",
               "e", "7", "5", "5", "7", "6", "4", "d", "3", "2", "d", "7", "1", "c", "9", "9">>
      [] digest = md5_hexdigest(json_dumps_sort_keys(
                  <<Item("username", PyStr("ed")), Item("limit", PyInt(10))>>)) ->
             <<"c", "d", "a", "a", "c", "6", "b", "0", "9", "c", "d", "e", "8", "6", "7", "f",
               "5", "e", "f", "8", "3", "2", "8", "0", "5", "e", "d", "b", "3", "9", "6", "f">>
      [] digest = md5_hexdigest(json_dumps_sort_keys(
                  <<Item("username", PyStr("ed")), Item("tweet_count", PyInt(20))>>)) ->
             <<"d", "c", "5", "c", "2", "8", "b", "8", "d", "3", "b", "c", "a", "8", "6", "7",
               "c", "2", "7", "7", "3", "9", "9", "8", "9", "d", "2", "e", "1", "b", "6", "5">>
      [] digest = md5_hexdigest(json_dumps_sort_keys(
                  <<Item("query", PyStr("bob")), Item("limit", PyInt(10))>>)) ->
             <<"d", "2", "2", "7", "8", "1", "8", "3", "c", "5", "8", "b", "e", "4", "2", "0",
               "8", "f", "e", "9", "e", "7", "a", "6", "5", "4", "0", "2", "b", "c", "7", "e">>
      [] digest = md5_hexdigest(json_dumps_sort_keys(
                  <<Item("query", PyStr("ed")), Item("limit", PyInt(10))>>)) ->
             <<"0", "f", "0", "d", "0", "5", "0", "d", "8", "d", "9", "4", "b", "7", "c", "8",
               "9", "8", "9", "d", "1", "6", "1", "5", "6", "c", "8", "f", "f", "1", "b", "7">>
      [] OTHER -> <<>>

\* Whether a text holds another as a run of consecutive characters.
Contains(text, part) ==
    \E i \in 1..(Len(text) - Len(part) + 1) : SubSeq(text, i, i + Len(part) - 1) = part

\* redis_client.keys(f"cache:{operation}:*{username}*") matches this key: the
\* text after the second colon is the digest.
key_matches(key, operation, username) ==
    /\ key.prefix = "cache"
    /\ key.operation = operation
    /\ Contains(hexdigest_text(key.digest), Chars(username))

\* CacheManager.invalidate_pattern, lines 51-60: the keyspace afterwards and
\* the number of keys deleted; redis_ok = FALSE is a redis.RedisError.
invalidate_pattern(st, operation, username, redis_ok) ==
    LET keys == {key \in DOMAIN st : st[key].present /\ key_matches(key, operation, username)}
    IN  IF redis_ok
        THEN [store |-> [key \in DOMAIN st |-> IF key \in keys THEN Absent ELSE st[key]],
              deleted |-> Cardinality(keys)]
        ELSE [store |-> st, deleted |-> 0]

\* CacheManager.invalidate_user_cache, lines 62-72: the three patterns in turn.
invalidate_user_cache(st, username, redis_ok) ==
    LET following == invalidate_pattern(st, "following_user", username, redis_ok[1])
        followers == invalidate_pattern(following.store, "followers_user", username,
                                        redis_ok[2])
        timeline == invalidate_pattern(followers.store, "timeline_tweet", username,
                                       redis_ok[3])
    IN  [store |-> timeline.store,
         total_deleted |-> following.deleted + followers.deleted + timeline.deleted]

\* Any of the results the operations had stored is in the store.
InitInvalidate ==
    /\ now = 0
    /\ \E stored \in SUBSET InvalidateRequests :
          /\ store = [key \in InvalidateKeys |->
                        IF \E r \in stored : cache_key_of(r) = key
                        THEN [present |-> TRUE,
                              doc |-> json_dumps(result_of(
                                          CHOOSE r \in stored : cache_key_of(r) = key,
                                          NoLocals, 0)),
                              exp |-> ttl_of(key.operation)]
                        ELSE Absent]
          /\ written = [key \in InvalidateKeys |->
                          IF \E r \in stored : cache_key_of(r) = key
                          THEN Some(result_of(CHOOSE r \in stored : cache_key_of(r) = key,
                                              NoLocals, 0))
                          ELSE None]
    /\ state_file = FileWith(<<AuthForever>>)
    /\ db = <<>>
    /\ ncalls = 0
    /\ pc = [p \in Workers |-> "idle"]
    /\ call = [p \in Workers |-> NoRequest]
    /\ self = [p \in Workers |-> NoCreds]
    /\ loc = [p \in Workers |-> NoLocals]
    /\ pw = [p \in Workers |-> NoPlaywright]
    /\ outcome = [p \in Workers |-> NoOutcome]
    /\ hist = [p \in Workers |-> NoHistory]
    /\ status = [p \in Workers |-> NoStatus]
    /\ keyin = NoKeyIn
    /\ keyout = NoKeyOut

\* Worker p calls cache_manager.invalidate_user_cache(username).
InvalidateUserCache(p) ==
    /\ pc[p] = "idle"
    /\ \E username \in {"bob", "ed"}, redis_ok \in [1..3 -> BOOLEAN] :
          LET done == invalidate_user_cache(store, username, redis_ok)
          IN  /\ store' = done.store
              /\ written' = [key \in DOMAIN written |->
                               IF done.store[key].present THEN written[key] ELSE None]
              /\ call' = [call EXCEPT ![p] = Request("invalidate_user_cache", username, 0)]
              /\ hist' = [hist EXCEPT ![p].answered = \A i \in 1..3 : redis_ok[i]]
              /\ outcome' = [outcome EXCEPT ![p] =
                                Returned(Some([total_deleted |-> done.total_deleted]))]
    /\ pc' = [pc EXCEPT ![p] = "done"]
    /\ UNCHANGED <<now, state_file, db, ncalls, self, loc, pw, status, keyin, keyout>>

\* After the invalidation a task of worker p calls a scraping operation.
RequestAfterInvalidate(p) ==
    /\ pc[p] = "idle"
    /\ \E q \in Workers \ {p} : pc[q] = "done"
    /\ \E r \in InvalidateRequests :
          /\ call' = [call EXCEPT ![p] = r]
          /\ pc' = [pc EXCEPT ![p] = "cache_get"]
    /\ ncalls' = ncalls + 1
    /\ UNCHANGED <<now, state_file, store, written, db, self, loc, pw, outcome, hist,
                   status, keyin, keyout>>

NextInvalidate ==
    \/ InvalidateUserCache(2)
    \/ RequestAfterInvalidate(1)
    \/ CacheLookup(1)

SpecInvalidate == InitInvalidate /\ [][NextInvalidate]_vars

\* The operation classes invalidate_user_cache names.
InvalidatedOperations == {"following_user", "followers_user", "timeline_tweet"}

\* C21: after invalidate_user_cache(username) met no store error, no entry
\* of following_user, followers_user or timeline_tweet for that username is
\* left, the next such request for that username is not answered by the
\* cache, and the invalidation left the entries of other usernames in place.
C21_InvalidateRemovesUserEntries ==
    /\ [](\A p \in Workers :
            (/\ pc[p] = "done"
             /\ call[p].operation = "invalidate_user_cache"
             /\ hist[p].answered)
            => /\ \A r \in InvalidateRequests :
                     (r.subject = call[p].subject /\ r.operation \in InvalidatedOperations)
                     => ~store[cache_key_of(r)].present
               /\ \A q \in Workers :
                     (/\ call[q].subject = call[p].subject
                      /\ call[q].operation \in InvalidatedOperations
                      /\ hist[q].got # "")
                     => hist[q].got = "absent")
    /\ [][\A p \in Workers :
             (pc[p] = "idle" /\ call'[p].operation = "invalidate_user_cache")
             => \A r \in InvalidateRequests :
                   r.subject # call'[p].subject
                   => store'[cache_key_of(r)] = store[cache_key_of(r)]]_vars

\* C21, its first half alone: the entries of the username are gone.
C21_OwnEntriesGone ==
    \A p \in Workers :
        (/\ pc[p] = "done"
         /\ call[p].operation = "invalidate_user_cache"
         /\ hist[p].answered)
        => \A r \in InvalidateRequests :
              (r.subject = call[p].subject /\ r.operation \in InvalidatedOperations)
              => ~store[cache_key_of(r)].present

\* C21, its second half alone: the entries of other usernames stay.
C21_OtherEntriesStay ==
    [][\A p \in Workers :
          (pc[p] = "idle" /\ call'[p].operation = "invalidate_user_cache")
          => \A r \in InvalidateRequests :
                r.subject # call'[p].subject
                => store'[cache_key_of(r)] = store[cache_key_of(r)]]_vars

(***************************************************************************)
(* Two Celery workers run a task with the identical request at the same    *)
(* time, over an empty cache and a session file that holds a session.      *)
(***************************************************************************)
RaceRequest == Request("search_user", "alice", 1)

InitRace ==
    /\ now = 0
    /\ store = [key \in CacheKeys |-> Absent]
    /\ written = [key \in CacheKeys |-> None]
    /\ state_file = FileWith(<<AuthForever>>)
    /\ db = <<>>
    /\ ncalls = 0
    /\ pc = [p \in Workers |-> "idle"]
    /\ call = [p \in Workers |-> NoRequest]
    /\ self = [p \in Workers |-> NoCreds]
    /\ loc = [p \in Workers |-> NoLocals]
    /\ pw = [p \in Workers |-> NoPlaywright]
    /\ outcome = [p \in Workers |-> NoOutcome]
    /\ hist = [p \in Workers |-> NoHistory]
    /\ status = [p \in Workers |-> NoStatus]
    /\ keyin = NoKeyIn
    /\ keyout = NoKeyOut

\* search_users_task of worker p: scraper.search_user(query, limit).
RaceCall(p) ==
    /\ pc[p] = "idle"
    /\ call' = [call EXCEPT ![p] = RaceRequest]
    /\ pc' = [pc EXCEPT ![p] = "cache_get"]
    /\ ncalls' = ncalls + 1
    /\ UNCHANGED <<now, state_file, store, written, db, self, loc, pw, outcome, hist,
                   status, keyin, keyout>>

RaceStep(p) ==
    \/ RaceCall(p)
    \/ CacheLookup(p)
    \/ EnsureLogin(p)
    \/ CaptureLaunch(p)
    \/ CaptureNavigate(p)
    \/ ExtractUsers(p)
    \/ CaptureClose(p)
    \/ CaptureStore(p)
    \/ CaptureExit(p)

NextRace == RaceStep(1) \/ RaceStep(2)

SpecRace == InitRace /\ [][NextRace]_vars

\* C22: two workers with the identical request never wait for each other
\* and fail only of their own capture; when both missed the cache, captured
\* and stored, the key holds the value of the later of the two writes.
C22_ConcurrentCapturesLastWriteWins ==
    LET key == cache_key_of(RaceRequest)
    IN  /\ \A p \in Workers :
              /\ pc[p] # "done" => ENABLED RaceStep(p)
              /\ outcome[p].kind = "raise" => (hist[p].capture /\ hist[p].exc # "")
        /\ (\A p \in Workers : pc[p] \in {"capture_exit", "done"} /\ hist[p].sets = 1)
           => /\ store[key].present
              /\ written[key] # None
              /\ store[key].doc = json_dumps(written[key][1])

\* Both workers missed the cache, captured and stored; worker 1 had found a
\* user and worker 2 none, and the key holds the empty list worker 2 wrote
\* later.
C22_Witness ==
    /\ \A p \in Workers :
          /\ pc[p] = "done"
          /\ call[p] = RaceRequest
          /\ hist[p].got = "absent"
          /\ hist[p].capture
          /\ hist[p].sets = 1
          /\ outcome[p].kind = "return"
          /\ ~outcome[p].value[1].metadata.cached
    /\ Len(outcome[1].value[1].users) = 1
    /\ Len(outcome[2].value[1].users) = 0
    /\ written[cache_key_of(RaceRequest)] = outcome[2].value
    /\ store[cache_key_of(RaceRequest)].doc = json_dumps(outcome[2].value[1])

\* The positions of a worker inside the capture phase of an operation.
CapturePositions ==
    {"capture_launch", "capture_navigate", "extract", "scroll_init", "scroll",
     "capture_close", "capture_store", "capture_exit"}

\* C23: the session file changes only where login saves it; the steps of a
\* capture, and every other step of a scraping operation, leave it as it is.
C23_SessionFileWrittenOnlyByLogin ==
    [][/\ state_file' # state_file =>
             \E p \in Workers : /\ pc[p] = "login_save"
                                /\ hist'[p].writes = hist[p].writes + 1
       /\ (\E p \in Workers : pc[p] \in CapturePositions /\ pc'[p] # pc[p])
             => state_file' = state_file]_vars

\* A login had saved a session without authentication cookies; the next
\* call captured without a login, and the file is still what that login wrote.
C23_Witness ==
    /\ pc[1] = "done"
    /\ ncalls = 2
    /\ call[1].operation \in ScrapeOperations
    /\ hist[1].logins = 0
    /\ hist[1].capture
    /\ outcome[1].kind = "return"
    /\ state_file = FileWith(<<GuestCookie>>)

C24_WitnessFailed ==
    /\ pc[1] = "done"
    /\ call[1].operation = "login"
    /\ outcome[1].kind = "raise"
    /\ outcome[1].cause = "TimeoutError"
    /\ hist[1].writes = 0
    /\ state_file = FileWith(<<AuthExpired>>)

\* C25: a login that was attempted with credentials and failed surfaces as
\* the login failure with its reason, whoever called it; the no-credentials
\* failure is raised only when no login was attempted for want of credentials.
C25_LoginFailureKeepsItsReason ==
    \A p \in Workers :
        (pc[p] = "done" /\ outcome[p].kind = "raise" /\ ~hist[p].capture) =>
            /\ (hist[p].logins > 0 /\ HasCredentials(self[p])) =>
                  /\ outcome[p].error = "Login failed"
                  /\ outcome[p].cause \in {"Error", "TimeoutError"}
            /\ outcome[p].error \in NoCredentialsErrors => hist[p].logins = 0

\* C26: whatever ensure_login found in place of a session (no file, no
\* cookies, an unreadable file), the login it goes on to uses the credentials
\* of the scraper when it has both, without asking the credential table, and
\* otherwise those of the first active row of the table, never an inactive
\* row's.
C26_OnePrecedenceInEveryBranch ==
    [][\A p \in Workers :
          (pc[p] = "ensure_login" /\ pc'[p] = "login") =>
              /\ hist'[p].branch \in {"missing", "no_cookies", "unreadable"}
              /\ IF self[p].username # "" /\ self[p].password # ""
                 THEN /\ self'[p] = self[p]
                      /\ loc'[p].login_mode = "explicit"
                 ELSE /\ loc'[p].login_mode = "fallback"
                      /\ \E i \in DOMAIN db :
                            /\ db[i].is_active
                            /\ \A j \in 1..(i - 1) : ~db[j].is_active
                            /\ self'[p].username = db[i].username
                            /\ self'[p].password = db[i].encrypted_password.plain]_vars

\* An unreadable state file and a scraper without credentials: the login
\* uses the second row of the table, the first active one.
C26_Witness ==
    /\ pc[1] = "login"
    /\ hist[1].branch = "unreadable"
    /\ ~hist[1].supplied
    /\ loc[1].login_mode = "fallback"
    /\ Len(db) = 2
    /\ ~db[1].is_active
    /\ self[1].username = db[2].username

\* A state file without cookies and a scraper with credentials: the login
\* uses them.
C26_WitnessExplicit ==
    /\ pc[1] = "login"
    /\ hist[1].branch = "no_cookies"
    /\ loc[1].login_mode = "explicit"
    /\ self[1] = Supplied

(***************************************************************************)
(* clear_state_file (lines 847-857), and what follows it: a status report  *)
(* and a scraping operation of another scraper.                            *)
(***************************************************************************)
\* The file is reported removed and left where it is.
clear_state_file_kept(file, remove_ok) == [file |-> file, returned |-> TRUE]

\* TwitterScraper.clear_state_file: the state file afterwards and the value
\* returned; remove_ok = FALSE is an exception of os.remove.
clear_state_file(file, remove_ok) ==
    IF file.kind = "absent" THEN [file |-> file, returned |-> TRUE]
    ELSE IF remove_ok THEN [file |-> FileAbsent, returned |-> TRUE]
    ELSE [file |-> file, returned |-> FALSE]

InitClear ==
    /\ InitWorkers
    /\ state_file \in InitFiles
    /\ db \in InitTables
    /\ keyin = NoKeyIn
    /\ keyout = NoKeyOut

\* Worker p calls clear_state_file().
ClearStateFile(p) ==
    /\ pc[p] = "idle"
    /\ \E remove_ok \in BOOLEAN :
          LET done == clear_state_file(state_file, remove_ok)
          IN  /\ state_file' = done.file
              /\ outcome' = [outcome EXCEPT ![p] = Returned(Some(done.returned))]
    /\ call' = [call EXCEPT ![p] = Request("clear_state_file", "", 0)]
    /\ pc' = [pc EXCEPT ![p] = "done"]
    /\ UNCHANGED <<now, store, written, db, ncalls, self, loc, pw, hist, status,
                   keyin, keyout>>

\* After the clear a scraper of worker p is asked check_login_status().
StatusAfterClear(p) ==
    /\ pc[p] = "idle"
    /\ \E q \in Workers \ {p} : pc[q] = "done"
    /\ \E creds \in {NoCreds, Supplied} :
          /\ self' = [self EXCEPT ![p] = creds]
          /\ status' = [status EXCEPT ![p] =
                [asked |-> TRUE, at |-> now,
                 report |-> check_login_status(state_file, creds, now)]]
    /\ UNCHANGED <<now, state_file, store, written, db, ncalls, pc, call, loc, pw,
                   outcome, hist, keyin, keyout>>

\* After the clear a task of worker p calls search_user.
SearchAfterClear(p) ==
    /\ pc[p] = "idle"
    /\ \E q \in Workers \ {p} : pc[q] = "done"
    /\ \E creds \in {NoCreds, Supplied} :
          /\ self' = [self EXCEPT ![p] = creds]
          /\ hist' = [hist EXCEPT ![p] = [NoHistory EXCEPT !.supplied = HasCredentials(creds)]]
    /\ call' = [call EXCEPT ![p] = Request("search_user", "alice", 1)]
    /\ pc' = [pc EXCEPT ![p] = "cache_get"]
    /\ ncalls' = ncalls + 1
    /\ UNCHANGED <<now, state_file, store, written, db, loc, pw, outcome, status,
                   keyin, keyout>>

NextClear ==
    \/ ClearStateFile(2)
    \/ StatusAfterClear(1)
    \/ SearchAfterClear(1)
    \/ CacheLookup(1)
    \/ EnsureLogin(1)
    \/ LoginBegin(1)
    \/ LoginFlow(1)
    \/ LoginSave(1)
    \/ LoginExit(1)
    \/ CaptureLaunch(1)
    \/ CaptureNavigate(1)
    \/ ExtractUsers(1)
    \/ CaptureClose(1)
    \/ CaptureStore(1)
    \/ CaptureExit(1)

SpecClear == InitClear /\ [][NextClear]_vars

\* C27: once clear_state_file has returned True, the session file is absent
\* until a login writes it, a status report says login_required and not
\* session_valid, and the next scraping operation captures only after a
\* login; a clear without a file returns True and changes nothing.
C27_ClearForcesLogin ==
    /\ [](\A q \in Workers :
            (/\ pc[q] = "done"
             /\ call[q].operation = "clear_state_file"
             /\ outcome[q].value = Some(TRUE))
            => \A p \in Workers \ {q} :
                  /\ hist[p].writes = 0 => state_file = FileAbsent
                  /\ status[p].asked =>
                        /\ status[p].report.login_required
                        /\ ~status[p].report.session_valid
                        /\ ~status[p].report.state_file_exists
                  /\ hist[p].ensure > 0 => hist[p].branch = "missing"
                  /\ hist[p].capture => (hist[p].logins = 1 /\ hist[p].writes = 1))
    /\ [][\A q \in Workers :
             (/\ pc[q] = "idle"
              /\ call'[q].operation = "clear_state_file"
              /\ state_file.kind = "absent")
             => /\ outcome'[q].value = Some(TRUE)
                /\ state_file' = state_file]_vars

\* A session was cleared; the status said login_required, and the search
\* that followed logged in with the credentials of the table and captured.
C27_Witness ==
    /\ pc[2] = "done"
    /\ call[2].operation = "clear_state_file"
    /\ outcome[2].value = Some(TRUE)
    /\ status[1].asked
    /\ status[1].report.login_required
    /\ pc[1] = "done"
    /\ hist[1].branch = "missing"
    /\ hist[1].logins = 1
    /\ hist[1].capture
    /\ outcome[1].kind = "return"
    /\ state_file.kind = "json"

RECURSIVE SumTokens(_)
\* The number of tokens of a list of entries or of tweets.
SumTokens(items) ==
    IF items = <<>> THEN 0 ELSE Len(Head(items).hashtags) + SumTokens(Tail(items))

\* C28: when the one intercepted response holds well-formed tweets with
\* distinct ids, the timeline holds each of them exactly once and the hashtag
\* counts count each of its hashtags once, however many scroll passes were
\* made; no id occurs twice in the timeline.
C28_EachTweetOnce ==
    \A p \in Workers :
        (/\ pc[p] \in {"capture_close", "capture_store", "capture_exit"}
         /\ call[p].operation = "timeline_tweet"
         /\ loc[p].scroll_count > 0
         /\ loc[p].exc = ""
         /\ Len(loc[p].xhr_calls) = 1
         /\ loc[p].xhr_calls[1].shape = "ok"
         /\ LET entries == loc[p].xhr_calls[1].entries
            IN  /\ Len(entries) <= 2
                /\ \A i \in DOMAIN entries :
                      entries[i].shape = "tweet" /\ entries[i].followers > 0
                /\ \A i, j \in DOMAIN entries : i # j => entries[i].id # entries[j].id)
        => LET entries == loc[p].xhr_calls[1].entries
               timeline == loc[p].timeline
           IN  /\ \A i, j \in DOMAIN timeline : i # j => timeline[i].id # timeline[j].id
               /\ [i \in DOMAIN timeline |-> timeline[i].id]
                     = [i \in DOMAIN entries |-> entries[i].id]
               /\ SumCounts(loc[p].hashtags_data) = SumTokens(entries)

\* C29: a user list that was extracted holds at most limit records: those of
\* the mappable entries among the first limit entries of the cursor-truncated
\* list of the first matching response, in their order (none when nothing
\* matched or the body held no envelope); the result built from it carries
\* the same list and a result_count equal to its length.
C29_AtMostLimitFromFirstMatch ==
    \A p \in Workers :
        (/\ pc[p] \in {"capture_close", "capture_store", "capture_exit"}
         /\ call[p].operation \in {"search_user", "following_user", "followers_user"}
         /\ loc[p].exc = "")
        => LET pattern == InterceptPattern(call[p].operation)
               hits == {i \in DOMAIN loc[p].xhr_calls : loc[p].xhr_calls[i].name = pattern}
               first == CHOOSE i \in hits : \A j \in hits : i <= j
               entries == IF hits = {} \/ loc[p].xhr_calls[first].shape # "ok" THEN <<>>
                          ELSE loc[p].xhr_calls[first].entries
               kept == IF Len(entries) > 2 THEN SubSeq(entries, 1, Len(entries) - 2)
                       ELSE entries
               batch == SubSeq(kept, 1, Min(call[p].n, Len(kept)))
               mapped == SelectSeq(batch, LAMBDA e : e.shape \in {"user", "no_subdicts"})
               id(u) == IF "user_id" \in DOMAIN u THEN u.user_id ELSE u.id
           IN  /\ Len(loc[p].users) <= call[p].n
               /\ [i \in DOMAIN loc[p].users |-> id(loc[p].users[i])]
                     = [i \in DOMAIN mapped |-> mapped[i].id]
               /\ pc[p] = "capture_exit"
                     => /\ loc[p].result # None
                        /\ loc[p].result[1].users = loc[p].users
                        /\ loc[p].result[1].metadata.result_count = Len(loc[p].users)

\* A search with limit 1 met an unrelated call and two matching ones, the
\* first with two users: the result holds the first user of the first match.
C29_Witness ==
    /\ pc[1] = "capture_exit"
    /\ call[1] = Request("search_user", ProbeSubject, 1)
    /\ Len(loc[1].xhr_calls) = 3
    /\ loc[1].exc = ""
    /\ loc[1].result # None
    /\ Len(loc[1].result[1].users) = 1
    /\ loc[1].result[1].users[1].user_id = "1"
    /\ loc[1].result[1].metadata.result_count = 1

\* The capture of worker p was completed (neither the launch nor the page
\* raised), and the first intercepted call that matches the pattern of its
\* operation holds no envelope, or no call matches.
C30_NothingToExtract(p, shapes) ==
    /\ loc[p].exc \notin {"Error", "TimeoutError"}
    /\ LET pattern == InterceptPattern(call[p].operation)
           hits == {i \in DOMAIN loc[p].xhr_calls : loc[p].xhr_calls[i].name = pattern}
           first == CHOOSE i \in hits : \A j \in hits : i <= j
       IN  \/ hits = {}
           \/ loc[p].xhr_calls[first].shape \in shapes

\* Such a capture ends without exception and with no users; its result has an
\* empty users list and, unless the store refused it, is the live value of the
\* key of the request.
C30_EndsEmptyAndStored(p) ==
    /\ loc[p].exc = ""
    /\ loc[p].users = <<>>
    /\ pc[p] = "capture_exit"
          => /\ loc[p].result # None
             /\ loc[p].result[1].users = <<>>
             /\ loc[p].result[1].metadata.result_count = 0
             /\ ~hist[p].setfail
                   => redis_get(store, cache_key_of(call[p]), now)
                         = Some(json_dumps(loc[p].result[1]))

\* C30: when no intercepted call matches, or the matching body lacks the
\* envelope (it is no JSON, lacks a key of the path, has too few instructions
\* or a null on the path), search_user, following_user and followers_user
\* end with a successful result whose users list is empty, and store it.
C30_NoEnvelopeYieldsCachedEmptyList ==
    \A p \in Workers :
        (/\ pc[p] \in {"capture_close", "capture_store", "capture_exit"}
         /\ call[p].operation \in {"search_user", "following_user", "followers_user"}
         /\ C30_NothingToExtract(p, {"not_json", "missing_key", "short", "null"}))
        => C30_EndsEmptyAndStored(p)

\* The same for the bodies whose decoding raises json.JSONDecodeError or
\* KeyError, and for no match.
C30_CaughtShapesYieldCachedEmptyList ==
    \A p \in Workers :
        (/\ pc[p] \in {"capture_close", "capture_store", "capture_exit"}
         /\ call[p].operation \in {"search_user", "following_user", "followers_user"}
         /\ C30_NothingToExtract(p, {"not_json", "missing_key"}))
        => C30_EndsEmptyAndStored(p)

\* A following capture without a matching call has stored its empty result.
C30_WitnessNoMatch ==
    /\ pc[1] = "capture_exit"
    /\ call[1] = Request("following_user", ProbeSubject, 3)
    /\ Len(loc[1].xhr_calls) = 1
    /\ loc[1].xhr_calls[1].name = "other"
    /\ loc[1].result # None
    /\ loc[1].result[1].users = <<>>
    /\ redis_get(store, cache_key_of(call[1]), now) = Some(json_dumps(loc[1].result[1]))

====
